---- MODULE Spec2Model ----
(***************************************************************************)
(* A shell: the line tokenizer (parser.rs, and its copy in main.rs) and    *)
(* the pipeline executor of main.rs.                                       *)
(*                                                                         *)
(* A string is a sequence of one-character strings.  An Option is a record *)
(* with the field is_some, and the field value when is_some is TRUE.       *)
(***************************************************************************)
EXTENDS Integers, Sequences, FiniteSets, TLC

VARIABLES
    \* ---- tokenizer (parse_input) ----
    input,            \* the line handed to parse_input
    parser,           \* the locals of parse_input, see ParserStart
    result,           \* what parse_input returned (an Option), once ppc = "returned"
    ppc,              \* "scan" while the character loop runs, "returned" afterwards
    \* ---- executor (main) ----
    pc,               \* position of the control thread in main
    lines,            \* number of lines read so far
    pipeline,         \* parsed_commands of the current line
    index,            \* 1-based position of the for loop in pipeline
    previous_child,   \* Option<Child>: 0 is None, i is the child of stage i
    previous_output,  \* Option<ChildStdout>: 0 is None, i is the pipe of stage i
    running,          \* locals of run_executable between its steps
    proc,             \* per stage: "none", "running", "exited" or "waited"
    stdin_of,         \* per stage: -1 never attached, 0 Stdio::null(), i pipe of stage i
    stdout_of,        \* per stage: "none", "inherit" or "piped"
    stderr_of,        \* per stage: "none", "inherit" or "piped"
    pipe_buf,         \* per stage: bytes written into the pipe made for its stdout
    err_buf,          \* per stage: bytes written into the pipe made for its stderr
    term_out,         \* bytes that reached the shell's own stdout
    term_err,         \* bytes that reached the shell's own stderr
    fs,               \* path -> Option<content>
    opens,            \* open() calls of the current line: <<stage, path>>
    cwd,              \* the working directory of the process
    exit_status,      \* -1 while the process lives, else its exit status
    env_path,         \* the directories of the PATH variable, in order
    history,          \* the entries of the editor's history, oldest first
    streams           \* per stage: the bytes its program has yet to write, the
                      \* byte it has read and not yet written, and the number of
                      \* bytes waiting in the pipes made for its stdout and stderr

parser_vars == <<input, parser, result, ppc>>
exec_vars == <<pc, lines, pipeline, index, previous_child, previous_output, running,
               proc, stdin_of, stdout_of, stderr_of, pipe_buf, err_buf,
               term_out, term_err, fs, opens, cwd, exit_status>>
env_vars == <<env_path, history, streams>>
vars == <<parser_vars, exec_vars, env_vars>>

None == [is_some |-> FALSE]
Some(v) == [is_some |-> TRUE, value |-> v]

(***************************************************************************)
(* Characters                                                              *)
(***************************************************************************)
CHAR_BACKSLASH == "\\"
\* the backtick character, spelled out
CHAR_BACKTICK == "backtick"
CHAR_EXCLAMATION_MARK == "!"
CHAR_DOLLAR_SIGN == "$"
CHAR_DOUBLE_QUOTE == "\""
CHAR_GREATER_THAN == ">"
CHAR_NEWLINE == "\n"
CHAR_PIPE == "|"
CHAR_SINGLE_QUOTE == "'"
STDERR_FILE_DESCRIPTOR == "2"
STDOUT_FILE_DESCRIPTOR == "1"
STDOUT_STDERR_FILE_DESCRIPTOR == "&"

\* char::is_whitespace, on the characters the model draws from
IsWhitespace(c) == c \in {" ", "\t", "\n"}

\* str::trim: drops leading and trailing whitespace
RECURSIVE TrimStart(_)
TrimStart(s) ==
    IF s # <<>> /\ IsWhitespace(Head(s)) THEN TrimStart(Tail(s)) ELSE s

RECURSIVE TrimEnd(_)
TrimEnd(s) ==
    IF s # <<>> /\ IsWhitespace(s[Len(s)]) THEN TrimEnd(SubSeq(s, 1, Len(s) - 1)) ELSE s

Trim(s) == TrimEnd(TrimStart(s))

(***************************************************************************)
(* parse_input                                                             *)
(***************************************************************************)
OutputRedirection(file_name, append_to) ==
    [file_name |-> file_name, append_to |-> append_to]

ParsedCommand(tokens, stdout, stderr) ==
    [tokens |-> IF tokens = <<>> THEN None ELSE Some(tokens),
     stdout |-> stdout, stderr |-> stderr]

\* the locals declared at the head of the 'pipeline loop
StageStart(characters, pipe_line) ==
    [characters |-> characters,
     pipeline |-> pipe_line,
     tokens |-> <<>>,
     stdout |-> OutputRedirection(None, FALSE),
     stderr |-> OutputRedirection(None, FALSE),
     current_token |-> <<>>,
     in_single_quotes |-> FALSE,
     in_double_quotes |-> FALSE,
     escape_next_char |-> FALSE,
     in_stdout_redirection |-> FALSE,
     in_stderr_redirection |-> FALSE]

ParserStart(line) == StageStart(Trim(line), <<>>)

\* the arm of a file descriptor character ('1', '2', '&'); push_at_end is TRUE
\* for parser.rs, whose arms push the character when nothing follows it, and
\* FALSE for main.rs, whose arms have no else branch
FileDescriptorArm(st, c, rest, to_stdout, to_stderr, push_at_end) ==
    IF rest # <<>>
    THEN IF Head(rest) = CHAR_GREATER_THAN
         THEN [st EXCEPT !.characters = Tail(rest),
                         !.in_stdout_redirection = IF to_stdout THEN TRUE ELSE @,
                         !.in_stderr_redirection = IF to_stderr THEN TRUE ELSE @]
         ELSE [st EXCEPT !.characters = rest,
                         !.current_token = Append(@, c)]
    ELSE IF push_at_end
         THEN [st EXCEPT !.characters = rest, !.current_token = Append(@, c)]
         ELSE [st EXCEPT !.characters = rest]

\* the arm of a quote character; mine is the flag of this quote, other the
\* flag of the other one
QuoteArm(st, c, rest, single) ==
    LET mine == IF single THEN st.in_single_quotes ELSE st.in_double_quotes
        other == IF single THEN st.in_double_quotes ELSE st.in_single_quotes
    IN  IF st.current_token = <<>>
        THEN [st EXCEPT !.characters = rest,
                        !.in_single_quotes = single,
                        !.in_double_quotes = ~single]
        ELSE IF rest # <<>>
             THEN IF mine /\ IsWhitespace(Head(rest))
                  THEN [st EXCEPT !.characters = rest,
                                  !.tokens = Append(@, st.current_token),
                                  !.current_token = <<>>,
                                  !.in_single_quotes = FALSE,
                                  !.in_double_quotes = FALSE]
                  ELSE IF other
                       THEN [st EXCEPT !.characters = rest,
                                       !.current_token = Append(@, c)]
                       ELSE [st EXCEPT !.characters = rest]
             ELSE [st EXCEPT !.characters = rest]

BackslashArm(st, c, rest) ==
    IF st.in_single_quotes
    THEN [st EXCEPT !.characters = rest, !.current_token = Append(@, c)]
    ELSE IF st.in_double_quotes
         THEN IF rest # <<>>
              THEN IF Head(rest) \in {CHAR_BACKTICK, CHAR_BACKSLASH, CHAR_DOLLAR_SIGN,
                                      CHAR_DOUBLE_QUOTE, CHAR_EXCLAMATION_MARK}
                   THEN [st EXCEPT !.characters = rest, !.escape_next_char = TRUE]
                   ELSE [st EXCEPT !.characters = rest, !.current_token = Append(@, c)]
              ELSE [st EXCEPT !.characters = rest]
         ELSE [st EXCEPT !.characters = rest, !.escape_next_char = TRUE]

\* the whitespace arm as it would be without the test of current_token
WhitespaceArmOfAnyToken(st, c, rest) ==
    IF st.in_single_quotes \/ st.in_double_quotes
    THEN [st EXCEPT !.characters = rest, !.current_token = Append(@, c)]
    ELSE IF st.in_stdout_redirection
         THEN [st EXCEPT !.characters = rest,
                         !.stdout.file_name = Some(st.current_token),
                         !.in_stdout_redirection = FALSE,
                         !.current_token = <<>>]
         ELSE IF st.in_stderr_redirection
              THEN [st EXCEPT !.characters = rest,
                              !.stderr.file_name = Some(st.current_token),
                              !.in_stderr_redirection = FALSE,
                              !.current_token = <<>>]
              ELSE [st EXCEPT !.characters = rest,
                              !.tokens = Append(@, st.current_token),
                              !.current_token = <<>>]

WhitespaceArm(st, c, rest) ==
    IF st.in_single_quotes \/ st.in_double_quotes
    THEN [st EXCEPT !.characters = rest, !.current_token = Append(@, c)]
    ELSE IF st.current_token # <<>>
         THEN IF st.in_stdout_redirection
              THEN [st EXCEPT !.characters = rest,
                              !.stdout.file_name = Some(st.current_token),
                              !.in_stdout_redirection = FALSE,
                              !.current_token = <<>>]
              ELSE IF st.in_stderr_redirection
                   THEN [st EXCEPT !.characters = rest,
                                   !.stderr.file_name = Some(st.current_token),
                                   !.in_stderr_redirection = FALSE,
                                   !.current_token = <<>>]
                   ELSE [st EXCEPT !.characters = rest,
                                   !.tokens = Append(@, st.current_token),
                                   !.current_token = <<>>]
         ELSE [st EXCEPT !.characters = rest]

\* the pipe arm as it would be if the locals of a stage were declared outside
\* the loop over the stages: only the tokens are taken by the stage pushed
PipeArmKeepingModes(st, c, rest) ==
    [st EXCEPT !.characters = rest,
               !.pipeline = Append(@, ParsedCommand(st.tokens, st.stdout, st.stderr)),
               !.tokens = <<>>]

\* the pipe arm: the stage is pushed as it stands, `continue 'pipeline` makes
\* the locals of the next stage anew
PipeArm(st, c, rest) ==
    StageStart(rest,
               Append(st.pipeline, ParsedCommand(st.tokens, st.stdout, st.stderr)))

\* one turn of `while let Some(character) = characters.next()`: the match on
\* the character, its arms tried in the order of the source
ParseChar(st, push_at_end) ==
    LET c == Head(st.characters)
        rest == Tail(st.characters)
    IN  CASE c = CHAR_SINGLE_QUOTE /\ ~st.escape_next_char ->
                QuoteArm(st, c, rest, TRUE)
          [] c = CHAR_DOUBLE_QUOTE /\ ~st.escape_next_char ->
                QuoteArm(st, c, rest, FALSE)
          [] c = CHAR_BACKSLASH /\ ~st.escape_next_char ->
                BackslashArm(st, c, rest)
          [] c = CHAR_PIPE /\ ~st.escape_next_char
               /\ ~st.in_single_quotes /\ ~st.in_double_quotes ->
                PipeArm(st, c, rest)
          [] c = STDOUT_FILE_DESCRIPTOR /\ st.current_token = <<>> ->
                FileDescriptorArm(st, c, rest, TRUE, FALSE, push_at_end)
          [] c = STDERR_FILE_DESCRIPTOR /\ st.current_token = <<>> ->
                FileDescriptorArm(st, c, rest, FALSE, TRUE, push_at_end)
          [] c = STDOUT_STDERR_FILE_DESCRIPTOR /\ st.current_token = <<>> ->
                FileDescriptorArm(st, c, rest, TRUE, TRUE, push_at_end)
          [] c = CHAR_GREATER_THAN
               /\ ~st.in_stdout_redirection /\ ~st.in_stderr_redirection
               /\ ~st.escape_next_char
               /\ ~st.in_single_quotes /\ ~st.in_double_quotes ->
                [st EXCEPT !.characters = rest, !.in_stdout_redirection = TRUE]
          [] c = CHAR_GREATER_THAN ->
                [st EXCEPT !.characters = rest,
                           !.stdout.append_to = st.in_stdout_redirection,
                           !.stderr.append_to = st.in_stderr_redirection]
          [] IsWhitespace(c) /\ ~st.escape_next_char ->
                WhitespaceArm(st, c, rest)
          [] OTHER ->
                [st EXCEPT !.characters = rest,
                           !.current_token = Append(@, c),
                           !.escape_next_char = FALSE]

\* after the character loop: flush the pending token, push the last stage
ParseEnd(st) ==
    LET flushed ==
            IF st.current_token # <<>>
            THEN IF st.in_stdout_redirection
                 THEN [st EXCEPT !.stdout.file_name = Some(st.current_token)]
                 ELSE IF st.in_stderr_redirection
                      THEN [st EXCEPT !.stderr.file_name = Some(st.current_token)]
                      ELSE [st EXCEPT !.tokens = Append(@, st.current_token)]
            ELSE st
    IN  [flushed EXCEPT !.pipeline =
            Append(@, ParsedCommand(flushed.tokens, flushed.stdout, flushed.stderr))]

\* the return value of parse_input
ParseReturn(st) == IF st.pipeline = <<>> THEN None ELSE Some(st.pipeline)

(***************************************************************************)
(* Names and messages                                                      *)
(***************************************************************************)
CHAR_CARRIAGE_RETURN == "\r"
\* the NUL character, spelled out
CHAR_NULL == "NUL"
CHAR_TAB == "\t"
COMMAND_CD == <<"c", "d">>
COMMAND_ECHO == <<"e", "c", "h", "o">>
COMMAND_ECHO_FLAG_EXPAND_ESCAPE == <<"-", "e">>
COMMAND_EXIT == <<"e", "x", "i", "t">>
COMMAND_PWD == <<"p", "w", "d">>
COMMAND_TYPE == <<"t", "y", "p", "e">>
HOME_DIRECTORY == <<"~">>

ERROR_OPENING_FILE == <<"E", "r", "r", "o", "r", " ", "o", "p", "e", "n", "i", "n", "g", " ", "f", "i", "l", "e", " ">>

\* Display and Debug of the io::Error of a path that does not exist
ENOENT_DISPLAY == <<"N", "o", " ", "s", "u", "c", "h", " ", "f", "i", "l", "e", " ", "o", "r", " ", "d", "i", "r", "e", "c", "t", "o", "r", "y", " ", "(", "o", "s", " ", "e", "r", "r", "o", "r", " ", "2", ")">>
ENOENT_DEBUG == <<"O", "s", " ", "{", " ", "c", "o", "d", "e", ":", " ", "2", ",", " ", "k", "i", "n", "d", ":", " ", "N", "o", "t", "F", "o", "u", "n", "d", ",", " ", "m", "e", "s", "s", "a", "g", "e", ":", " ", "\"", "N", "o", " ", "s", "u", "c", "h", " ", "f", "i", "l", "e", " ", "o", "r", " ", "d", "i", "r", "e", "c", "t", "o", "r", "y", "\"", " ", "}">>

(***************************************************************************)
(* The environment of the process: PATH, HOME, the executables and the     *)
(* directories that exist.  Regular files carry their permission bits.     *)
(***************************************************************************)
ENVIRONMENT_VARIABLE_PATH == << <<"/", "b", "i", "n">>, <<"/", "u", "s", "r", "/", "b", "i", "n">> >>
ENVIRONMENT_VARIABLE_HOME == <<"/", "h", "o", "m", "e">>

Directories == { <<"/">>, <<"/", "h", "o", "m", "e">>, <<"/", "b", "i", "n">>, <<"/", "u", "s", "r", "/", "b", "i", "n">> }

\* path -> permission bits (octal 755 is 493, octal 644 is 420)
RegularFiles ==
    { [path |-> <<"/", "b", "i", "n", "/", "c", "a", "t">>, mode |-> 493],
      [path |-> <<"/", "u", "s", "r", "/", "b", "i", "n", "/", "c", "a", "t">>, mode |-> 493],
      [path |-> <<"/", "u", "s", "r", "/", "b", "i", "n", "/", "l", "s">>, mode |-> 493],
      [path |-> <<"/", "b", "i", "n", "/", "l", "s">>, mode |-> 420],
      [path |-> <<"/", "b", "i", "n", "/", "e", "c", "h", "o">>, mode |-> 493],
      [path |-> <<"/", "u", "s", "r", "/", "b", "i", "n", "/", "h", "i", "s", "t", "o", "r", "y">>, mode |-> 493],
      [path |-> <<"/", "h", "o", "m", "e", "/", "b", "i", "n">>, mode |-> 493] }

\* Path::is_file
IsFile(path) == \E f \in RegularFiles : f.path = path

StartsWith(s, c) == s # <<>> /\ Head(s) = c
HasChar(s, c) == \E k \in 1..Len(s) : s[k] = c

\* Path::join: an absolute second part replaces the first
PathJoin(dir, name) ==
    IF StartsWith(name, "/") \/ dir = <<>> THEN name
    ELSE IF dir[Len(dir)] = "/" THEN dir \o name
    ELSE dir \o <<"/">> \o name

\* mode & 0o111 != 0: one of the three execute bits is set
ExecuteBits(mode) ==
    (mode % 2 = 1) \/ ((mode \div 8) % 2 = 1) \/ ((mode \div 64) % 2 = 1)

\* metadata of the path, then its execute bits, whatever kind of entry it is
\* (the directories here are of mode 755)
is_executable(full_path_to_executable) ==
    \/ \E f \in RegularFiles : f.path = full_path_to_executable /\ ExecuteBits(f.mode)
    \/ full_path_to_executable \in Directories /\ ExecuteBits(493)

RECURSIVE SearchFromAnyEntry(_, _)
SearchFromAnyEntry(dirs, command) ==
    IF dirs = <<>> THEN None
    ELSE LET full_path_to_executable == PathJoin(Head(dirs), command)
         IN  IF is_executable(full_path_to_executable)
             THEN Some(full_path_to_executable)
             ELSE SearchFromAnyEntry(Tail(dirs), command)

RECURSIVE SearchFrom(_, _)
SearchFrom(dirs, command) ==
    IF dirs = <<>> THEN None
    ELSE LET full_path_to_executable == PathJoin(Head(dirs), command)
         IN  IF IsFile(full_path_to_executable)
                /\ is_executable(full_path_to_executable)
             THEN Some(full_path_to_executable)
             ELSE SearchFrom(Tail(dirs), command)

search_executable(command) == SearchFrom(env_path, command)

\* Command::new(command).spawn(): a name with a slash is executed as a path,
\* any other name is looked up in PATH
CanSpawn(command) ==
    IF HasChar(command, "/")
    THEN IsFile(command) /\ is_executable(command)
    ELSE search_executable(command).is_some

(***************************************************************************)
(* Sinks and the files behind them.  A world is what a write can change:   *)
(* the files, and the two streams of the shell itself.                     *)
(***************************************************************************)
World(f, out, err, op) == [fs |-> f, term_out |-> out, term_err |-> err, opens |-> op]

StdoutSink == [kind |-> "stdout"]
StderrSink == [kind |-> "stderr"]
FileSink(path, append) == [kind |-> "file", path |-> path, append |-> append]

\* a write through a file handle: at the end with O_APPEND, else from the
\* handle's position, which is 0 in a file just opened
WriteFile(content, bytes, append) ==
    IF append THEN content \o bytes
    ELSE bytes \o SubSeq(content, Len(bytes) + 1, Len(content))

\* what sits in a Box<dyn Write> reaches its destination when the box is
\* flushed or dropped
WriteSink(w, sink, bytes) ==
    IF bytes = <<>> THEN w
    ELSE CASE sink.kind = "stdout" -> [w EXCEPT !.term_out = @ \o bytes]
           [] sink.kind = "stderr" -> [w EXCEPT !.term_err = @ \o bytes]
           [] sink.kind = "file" ->
                [w EXCEPT !.fs[sink.path] =
                    Some(WriteFile(@.value, bytes, sink.append))]

\* OpenOptions::new().append(append_to).write(true).create(true).open(file_name):
\* the file is created when absent and is not truncated
OpenCreate(w, stage, file_name) ==
    [w EXCEPT !.fs[file_name] = IF @.is_some THEN @ ELSE Some(<<>>),
              !.opens = Append(@, <<stage, file_name>>)]

\* get_redirection of commands.rs: the same open, but with truncate(true) when
\* append_to is false; main.rs does not call it
get_redirection(w, stage, output) ==
    IF output.file_name.is_some
    THEN LET file_name == output.file_name.value
         IN  IF file_name \in DOMAIN w.fs
             THEN [w |-> [w EXCEPT !.fs[file_name] =
                                      IF @.is_some /\ output.append_to THEN @ ELSE Some(<<>>),
                                   !.opens = Append(@, <<stage, file_name>>)],
                   sink |-> Some(FileSink(file_name, output.append_to))]
             ELSE [w |-> [w EXCEPT !.term_err = @ \o ERROR_OPENING_FILE \o file_name
                                                 \o <<":", " ">> \o ENOENT_DISPLAY
                                                 \o <<"\n">>,
                                   !.opens = Append(@, <<stage, file_name>>)],
                   sink |-> None]
    ELSE [w |-> w, sink |-> None]

\* get_output_redirection of main.rs, for the redirection of stage `stage`
get_output_redirection(w, stage, output) ==
    IF output.file_name.is_some
    THEN LET file_name == output.file_name.value
         IN  IF file_name \in DOMAIN w.fs
             THEN [w |-> OpenCreate(w, stage, file_name),
                   sink |-> Some(FileSink(file_name, output.append_to))]
             ELSE [w |-> [w EXCEPT !.term_err = @ \o <<"E", "r", "r", "o", "r", ":", " ">> \o ENOENT_DISPLAY \o <<"\n">>,
                                   !.opens = Append(@, <<stage, file_name>>)],
                   sink |-> None]
    ELSE [w |-> w, sink |-> None]

\* main.rs lines 178-181: both redirections of a stage are opened, stdout
\* first, and an absent or failed one falls back to the shell's own stream
StageSinks(w, stage, parsed_command) ==
    LET o == get_output_redirection(w, stage, parsed_command.stdout)
        e == get_output_redirection(o.w, stage, parsed_command.stderr)
    IN  [w |-> e.w,
         stdout |-> IF o.sink.is_some THEN o.sink.value ELSE StdoutSink,
         stderr |-> IF e.sink.is_some THEN e.sink.value ELSE StderrSink]

(***************************************************************************)
(* The builtins of main.rs.  Each takes the stage's tokens (tokens[1] is   *)
(* the command, so the Rust index of tokens[k] is k - 1), its two sinks,   *)
(* and the world, and gives the world it leaves.                           *)
(***************************************************************************)
RECURSIVE expand_escape_sequences(_)
expand_escape_sequences(string) ==
    IF string = <<>> THEN <<>>
    ELSE IF Head(string) = CHAR_BACKSLASH
         THEN IF Len(string) >= 2
              THEN LET next == string[2]
                       rest == expand_escape_sequences(SubSeq(string, 3, Len(string)))
                   IN  CASE next = "n" -> <<CHAR_NEWLINE>> \o rest
                         [] next = "t" -> <<CHAR_TAB>> \o rest
                         [] next = "r" -> <<CHAR_CARRIAGE_RETURN>> \o rest
                         [] next = CHAR_BACKSLASH -> <<CHAR_BACKSLASH>> \o rest
                         [] next = "0" -> <<CHAR_NULL>> \o rest
                         [] next = CHAR_DOUBLE_QUOTE -> <<CHAR_DOUBLE_QUOTE>> \o rest
                         [] next = CHAR_SINGLE_QUOTE -> <<CHAR_SINGLE_QUOTE>> \o rest
                         [] OTHER -> <<CHAR_BACKSLASH, next>> \o rest
              ELSE <<>>
         ELSE <<Head(string)>> \o expand_escape_sequences(Tail(string))

\* the loop of command_echo as it would be if -e were a flag at any position
RECURSIVE EchoFromFlagAnywhere(_, _, _)
EchoFromFlagAnywhere(tokens, k, expand_escape) ==
    IF k > Len(tokens) THEN <<>>
    ELSE IF tokens[k] = COMMAND_ECHO_FLAG_EXPAND_ESCAPE
         THEN EchoFromFlagAnywhere(tokens, k + 1, TRUE)
         ELSE (IF ~(expand_escape /\ k - 1 = 2) /\ k - 1 > 1 THEN <<" ">> ELSE <<>>)
              \o (IF expand_escape THEN expand_escape_sequences(tokens[k]) ELSE tokens[k])
              \o EchoFromFlagAnywhere(tokens, k + 1, expand_escape)

\* the loop of command_echo from tokens[k] on
RECURSIVE EchoFrom(_, _, _)
EchoFrom(tokens, k, expand_escape) ==
    IF k > Len(tokens) THEN <<>>
    ELSE IF k - 1 = 1 /\ tokens[k] = COMMAND_ECHO_FLAG_EXPAND_ESCAPE
         THEN EchoFrom(tokens, k + 1, TRUE)
         ELSE (IF ~(expand_escape /\ k - 1 = 2) /\ k - 1 > 1 THEN <<" ">> ELSE <<>>)
              \o (IF expand_escape THEN expand_escape_sequences(tokens[k]) ELSE tokens[k])
              \o EchoFrom(tokens, k + 1, expand_escape)

command_echo(w, tokens, stdout, stderr) ==
    WriteSink(w, stdout, EchoFrom(tokens, 2, FALSE) \o <<CHAR_NEWLINE>>)

\* what set_current_dir resolves its argument to
ResolveDir(cwd_now, directory) ==
    IF StartsWith(directory, "/") THEN directory
    ELSE IF cwd_now = <<"/">> THEN cwd_now \o directory
    ELSE cwd_now \o <<"/">> \o directory

\* command_cd as it would be if it took its last argument, not its first
CdTargetOfLastArgument(tokens) ==
    IF Len(tokens) >= 2
    THEN IF tokens[Len(tokens)] = HOME_DIRECTORY THEN ENVIRONMENT_VARIABLE_HOME
         ELSE tokens[Len(tokens)]
    ELSE ENVIRONMENT_VARIABLE_HOME

\* the directory command_cd hands to set_current_dir
CdTarget(tokens) ==
    IF Len(tokens) >= 2
    THEN IF tokens[2] = HOME_DIRECTORY THEN ENVIRONMENT_VARIABLE_HOME ELSE tokens[2]
    ELSE ENVIRONMENT_VARIABLE_HOME

\* set_current_dir as it would be if it never failed: a path that names no
\* directory becomes the working directory as any other
CdSucceedsOnAnyPath(cwd_now, tokens) == CdTarget(tokens) # <<>>

CdSucceeds(cwd_now, tokens) ==
    CdTarget(tokens) # <<>> /\ ResolveDir(cwd_now, CdTarget(tokens)) \in Directories

command_cd(w, cwd_now, tokens, stdout, stderr) ==
    IF CdSucceeds(cwd_now, tokens) THEN w
    ELSE WriteSink(w, stderr,
                   <<"c", "d", ":", " ">> \o CdTarget(tokens) \o <<":", " ", "N", "o", " ", "s", "u", "c", "h", " ", "f", "i", "l", "e", " ", "o", "r", " ", "d", "i", "r", "e", "c", "t", "o", "r", "y", "\n">>)

command_pwd(w, cwd_now, tokens, stdout, stderr) ==
    WriteSink(w, stdout, cwd_now \o <<CHAR_NEWLINE>>)

command_type(w, tokens, stdout, stderr) ==
    IF Len(tokens) < 2 THEN w
    ELSE LET argument == tokens[2]
         IN  IF argument \in {COMMAND_CD, COMMAND_ECHO, COMMAND_EXIT,
                              COMMAND_PWD, COMMAND_TYPE}
             THEN WriteSink(w, stdout, argument \o <<" ", "i", "s", " ", "a", " ", "s", "h", "e", "l", "l", " ", "b", "u", "i", "l", "t", "i", "n", "\n">>)
             ELSE LET found == search_executable(argument)
                  IN  IF found.is_some
                      THEN WriteSink(w, stdout,
                                     argument \o <<" ", "i", "s", " ">> \o found.value \o <<CHAR_NEWLINE>>)
                      ELSE WriteSink(w, stderr, argument \o <<":", " ", "n", "o", "t", " ", "f", "o", "u", "n", "d", "\n">>)

\* str::parse::<i32>: an optional sign, then one or more decimal digits
DigitValue(c) ==
    CASE c = "0" -> 0 [] c = "1" -> 1 [] c = "2" -> 2 [] c = "3" -> 3 [] c = "4" -> 4
      [] c = "5" -> 5 [] c = "6" -> 6 [] c = "7" -> 7 [] c = "8" -> 8 [] c = "9" -> 9
      [] OTHER -> -1

RECURSIVE DigitsValue(_, _)
DigitsValue(s, acc) ==
    IF s = <<>> THEN acc ELSE DigitsValue(Tail(s), 10 * acc + DigitValue(Head(s)))

RECURSIVE StripZeros(_)
StripZeros(s) ==
    IF Len(s) > 1 /\ Head(s) = "0" THEN StripZeros(Tail(s)) ELSE s

\* the largest magnitude an i32 takes: 2147483647, and one more below zero
I32Fits(digits, negative) ==
    \/ Len(digits) <= 9
    \/ /\ Len(digits) = 10
       /\ LET high == DigitsValue(SubSeq(digits, 1, 9), 0)
              low == DigitValue(digits[10])
          IN  \/ high < 214748364
              \/ high = 214748364 /\ low <= (IF negative THEN 8 ELSE 7)

ParseI32(s) ==
    LET signed == s # <<>> /\ Head(s) \in {"+", "-"}
        negative == StartsWith(s, "-")
        all_digits == IF signed THEN Tail(s) ELSE s
        digits == StripZeros(all_digits)
    IN  IF all_digits # <<>>
           /\ (\A k \in 1..Len(all_digits) : DigitValue(all_digits[k]) >= 0)
           /\ I32Fits(digits, negative)
        THEN Some(IF negative
                  THEN (0 - DigitsValue(SubSeq(digits, 1, Len(digits) - 1), 0)) * 10
                       - DigitValue(digits[Len(digits)])
                  ELSE DigitsValue(digits, 0))
        ELSE None

\* the status command_exit of main.rs hands to std::process::exit
ExitStatus(tokens) ==
    IF Len(tokens) >= 2
    THEN IF ParseI32(tokens[2]).is_some THEN ParseI32(tokens[2]).value ELSE 1
    ELSE 0

IsBuiltin(command) ==
    command \in {COMMAND_CD, COMMAND_ECHO, COMMAND_EXIT, COMMAND_PWD, COMMAND_TYPE}

\* the world a builtin other than exit leaves (main.rs, the match on command)
BuiltinWorld(w, cwd_now, tokens, stdout, stderr) ==
    CASE tokens[1] = COMMAND_CD -> command_cd(w, cwd_now, tokens, stdout, stderr)
      [] tokens[1] = COMMAND_ECHO -> command_echo(w, tokens, stdout, stderr)
      [] tokens[1] = COMMAND_PWD -> command_pwd(w, cwd_now, tokens, stdout, stderr)
      [] tokens[1] = COMMAND_TYPE -> command_type(w, tokens, stdout, stderr)
      [] OTHER -> w

(***************************************************************************)
(* The inputs the executor is run on                                       *)
(***************************************************************************)
MaxStages == 3

FILE_F == <<"f">>
FILE_G == <<"g">>
\* a path in a directory that does not exist: it cannot be opened
FILE_UNOPENABLE == <<"/", "n", "/", "f">>
Files == {FILE_F, FILE_G}

NoRedirection == OutputRedirection(None, FALSE)
Truncating(path) == OutputRedirection(Some(path), FALSE)
Appending(path) == OutputRedirection(Some(path), TRUE)

ARGV_ECHO_HI == << COMMAND_ECHO, <<"h", "i">> >>
ARGV_ECHO_BYE == << COMMAND_ECHO, <<"b", "y", "e">> >>
ARGV_CD_MISSING == << COMMAND_CD, <<"/", "n">> >>
ARGV_EXIT == << COMMAND_EXIT >>
ARGV_CAT == << <<"c", "a", "t">> >>
ARGV_NOPE == << <<"n", "o", "p", "e">> >>
ARGV_ABSOLUTE_MISSING == << <<"/", "x">> >>
ARGV_HISTORY == << <<"h", "i", "s", "t", "o", "r", "y">> >>

\* the stages pipelines are built from; the last one is what `> f` alone parses to
Stages ==
    { ParsedCommand(ARGV_ECHO_HI, NoRedirection, NoRedirection),
      ParsedCommand(ARGV_ECHO_HI, Truncating(FILE_F), NoRedirection),
      ParsedCommand(ARGV_CD_MISSING, NoRedirection, Truncating(FILE_G)),
      ParsedCommand(ARGV_EXIT, NoRedirection, NoRedirection),
      ParsedCommand(ARGV_CAT, NoRedirection, NoRedirection),
      ParsedCommand(ARGV_CAT, Truncating(FILE_F), NoRedirection),
      ParsedCommand(ARGV_CAT, NoRedirection, Truncating(FILE_G)),
      ParsedCommand(ARGV_CAT, Truncating(FILE_UNOPENABLE), NoRedirection),
      ParsedCommand(ARGV_NOPE, NoRedirection, NoRedirection),
      ParsedCommand(ARGV_NOPE, NoRedirection, Truncating(FILE_G)),
      ParsedCommand(ARGV_ABSOLUTE_MISSING, NoRedirection, NoRedirection),
      ParsedCommand(ARGV_HISTORY, NoRedirection, NoRedirection),
      ParsedCommand(<<>>, Truncating(FILE_F), NoRedirection) }

Pipelines == UNION { [1..n -> Stages] : n \in 1..MaxStages }

StageIds == 1..MaxStages

\* what the external program of stage i writes while it runs: two bytes on
\* its stdout and two on its stderr, which name the stream and the stage
DigitChar(i) == <<"0", "1", "2", "3", "4", "5", "6", "7", "8", "9">>[i + 1]
ChildOut(i) == <<"o", DigitChar(i)>>
ChildErr(i) == <<"e", DigitChar(i)>>

(***************************************************************************)
(* The executor: the read loop of main and the for loop over the stages    *)
(***************************************************************************)
NoRun == [stage |-> 0]

CurrentWorld == World(fs, term_out, term_err, opens)

SetWorld(w) ==
    /\ fs' = w.fs
    /\ term_out' = w.term_out
    /\ term_err' = w.term_err
    /\ opens' = w.opens

\* a stage is done: the for loop takes the next one, or ends, and with it the
\* scope of previous_child and previous_output, which are dropped unwaited
StageDone(child, output) ==
    /\ index' = index + 1
    /\ IF index = Len(pipeline)
       THEN pc' = "prompt" /\ previous_child' = 0 /\ previous_output' = 0
       ELSE pc' = "loop" /\ previous_child' = child /\ previous_output' = output

InitProcess ==
    /\ pc = "prompt"
    /\ lines = 0
    /\ pipeline = <<>>
    /\ index = 1
    /\ previous_child = 0
    /\ previous_output = 0
    /\ running = NoRun
    /\ proc = [i \in StageIds |-> "none"]
    /\ stdin_of = [i \in StageIds |-> -1]
    /\ stdout_of = [i \in StageIds |-> "none"]
    /\ stderr_of = [i \in StageIds |-> "none"]
    /\ pipe_buf = [i \in StageIds |-> <<>>]
    /\ err_buf = [i \in StageIds |-> <<>>]
    /\ term_out = <<>>
    /\ term_err = <<>>
    /\ opens = <<>>
    /\ cwd = <<"/">>
    /\ exit_status = -1
    /\ history = <<>>

\* no program has anything to write, the pipes are empty
NoStreams ==
    [out_todo |-> [i \in StageIds |-> 0], err_todo |-> [i \in StageIds |-> 0],
     held |-> [i \in StageIds |-> 0],
     fill |-> [i \in StageIds |-> 0], err_fill |-> [i \in StageIds |-> 0]]

InitExecutor ==
    /\ InitProcess
    /\ env_path = ENVIRONMENT_VARIABLE_PATH
    /\ streams = NoStreams

InitParserIdle ==
    /\ input = <<>>
    /\ parser = ParserStart(<<>>)
    /\ result = None
    /\ ppc = "idle"

\* main.rs lines 150-170: a line is read and parsed, the loop over its stages
\* starts; what the terminal and the process table showed of the line before
\* is no longer looked at
ReadLineFrom(inputs, max_lines) ==
    /\ pc = "prompt"
    /\ lines < max_lines
    /\ \E p \in inputs : pipeline' = p
    /\ lines' = lines + 1
    /\ index' = 1
    /\ previous_child' = 0
    /\ previous_output' = 0
    /\ pc' = "loop"
    /\ proc' = [i \in StageIds |-> "none"]
    /\ stdin_of' = [i \in StageIds |-> -1]
    /\ stdout_of' = [i \in StageIds |-> "none"]
    /\ stderr_of' = [i \in StageIds |-> "none"]
    /\ pipe_buf' = [i \in StageIds |-> <<>>]
    /\ err_buf' = [i \in StageIds |-> <<>>]
    /\ term_out' = <<>>
    /\ term_err' = <<>>
    /\ opens' = <<>>
    /\ UNCHANGED <<running, fs, cwd, exit_status, parser_vars, env_vars>>

\* Spec follows the shell through one line: what a line leaves to the next
\* is the files, and Init starts from files with and without content
ReadLine == ReadLineFrom(Pipelines, 1)

\* main.rs lines 174-177: a stage without tokens ends the whole line
DiscardLine ==
    /\ pc = "loop"
    /\ ~pipeline[index].tokens.is_some
    /\ pc' = "prompt"
    /\ previous_child' = 0
    /\ previous_output' = 0
    /\ UNCHANGED <<lines, pipeline, index, running, proc, stdin_of, stdout_of, stderr_of,
                   pipe_buf, err_buf, term_out, term_err, fs, opens, cwd, exit_status,
                   parser_vars, env_vars>>

AtStage ==
    /\ pc = "loop"
    /\ pipeline[index].tokens.is_some

Tokens == pipeline[index].tokens.value
Command == Tokens[1]
Sinks == StageSinks(CurrentWorld, index, pipeline[index])
inherit_stdout == ~pipeline[index].stdout.file_name.is_some
inherit_stderr == ~pipeline[index].stderr.file_name.is_some

\* main.rs lines 183-198: a builtin runs in the shell, on the stage's sinks
DispatchBuiltin ==
    /\ AtStage
    /\ IsBuiltin(Command)
    /\ IF Command = COMMAND_EXIT
       THEN /\ SetWorld(Sinks.w)
            /\ exit_status' = ExitStatus(Tokens)
            /\ pc' = "exited"
            /\ UNCHANGED <<index, previous_child, previous_output, cwd>>
       ELSE /\ SetWorld(BuiltinWorld(Sinks.w, cwd, Tokens, Sinks.stdout, Sinks.stderr))
            /\ cwd' = IF Command = COMMAND_CD /\ CdSucceeds(cwd, Tokens)
                      THEN ResolveDir(cwd, CdTarget(Tokens))
                      ELSE cwd
            /\ StageDone(previous_child, previous_output)
            /\ UNCHANGED exit_status
    /\ UNCHANGED <<lines, pipeline, running, proc, stdin_of, stdout_of, stderr_of,
                   pipe_buf, err_buf, parser_vars, env_vars>>

\* previous_output.take().unwrap() on None: the thread panics, the process ends
Panic ==
    /\ SetWorld(Sinks.w)
    /\ pc' = "panicked"
    /\ exit_status' = 101
    /\ UNCHANGED <<lines, pipeline, index, previous_child, previous_output, running,
                   proc, stdin_of, stdout_of, stderr_of, pipe_buf, err_buf, cwd,
                   parser_vars, env_vars>>

\* Command::spawn of stage i with the given streams
Spawned(i, stdin, out, err) ==
    /\ proc' = [proc EXCEPT ![i] = "running"]
    /\ stdin_of' = [stdin_of EXCEPT ![i] = stdin]
    /\ stdout_of' = [stdout_of EXCEPT ![i] = out]
    /\ stderr_of' = [stderr_of EXCEPT ![i] = err]

NotSpawned == UNCHANGED <<proc, stdin_of, stdout_of, stderr_of>>

FailedToSpawn(command) ==
    <<"E", "r", "r", "o", "r", ":", " ", "F", "a", "i", "l", "e", "d", " ", "t", "o", " ", "s", "p", "a", "w", "n", " ", "c", "h", "i", "l", "d", " ", "p", "r", "o", "c", "e", "s", "s", " ">> \o command \o <<CHAR_NEWLINE>>

\* run_executable of main.rs up to its first blocking call; stdin and child
\* are the arguments main passes, which it has taken out of previous_output
\* and previous_child
RunExecutable(stdin, child) ==
    LET s == Sinks
        command_path == IF StartsWith(Command, "/") THEN Some(Command)
                        ELSE search_executable(Command)
        locals == [stage |-> index, stdout |-> s.stdout, stderr |-> s.stderr,
                   child |-> child, output_ok |-> CanSpawn(Command)]
    IN  IF ~command_path.is_some
        THEN /\ SetWorld(WriteSink(s.w, s.stderr, Command \o <<":", " ", "c", "o", "m", "m", "a", "n", "d", " ", "n", "o", "t", " ", "f", "o", "u", "n", "d", "\n">>))
             /\ NotSpawned
             /\ running' = NoRun
             /\ StageDone(0, 0)
        ELSE IF inherit_stdout /\ inherit_stderr
        THEN IF CanSpawn(Command)
             THEN /\ SetWorld(s.w)
                  /\ Spawned(index, stdin, "inherit", "inherit")
                  /\ running' = locals
                  /\ pc' = "run_wait_previous"
                  /\ previous_child' = 0
                  /\ previous_output' = 0
                  /\ UNCHANGED index
             ELSE /\ SetWorld(WriteSink(s.w, s.stderr,
                                        <<"E", "r", "r", "o", "r", ":", " ">> \o ENOENT_DEBUG \o <<CHAR_NEWLINE>>))
                  /\ NotSpawned
                  /\ running' = NoRun
                  /\ StageDone(0, 0)
        ELSE /\ SetWorld(s.w)
             /\ IF CanSpawn(Command)
                THEN Spawned(index, stdin, "piped", "piped") /\ pc' = "run_output"
                ELSE NotSpawned /\ pc' = "run_output_wait_previous"
             /\ running' = locals
             /\ previous_child' = 0
             /\ previous_output' = 0
             /\ UNCHANGED index

\* main.rs lines 200-213: the only command of the line
DispatchSingle ==
    /\ AtStage
    /\ ~IsBuiltin(Command)
    /\ Len(pipeline) = 1
    /\ RunExecutable(0, 0)
    /\ UNCHANGED <<lines, pipeline, pipe_buf, err_buf, cwd, exit_status, parser_vars, env_vars>>

\* main.rs lines 214-231: the first command of a pipeline
DispatchFirst ==
    /\ AtStage
    /\ ~IsBuiltin(Command)
    /\ Len(pipeline) > 1
    /\ index = 1
    /\ IF CanSpawn(Command)
       THEN /\ SetWorld(Sinks.w)
            /\ Spawned(index, 0, "piped", "inherit")
            /\ StageDone(index, index)
       ELSE /\ SetWorld(WriteSink(Sinks.w, Sinks.stderr, FailedToSpawn(Command)))
            /\ NotSpawned
            /\ StageDone(previous_child, previous_output)
    /\ UNCHANGED <<lines, pipeline, running, pipe_buf, err_buf, cwd, exit_status,
                   parser_vars, env_vars>>

\* main.rs lines 232-239, 247-254: a middle command of a pipeline, up to the
\* wait on the child before it
DispatchMiddle ==
    /\ AtStage
    /\ ~IsBuiltin(Command)
    /\ Len(pipeline) > 1
    /\ index > 1
    /\ index < Len(pipeline)
    /\ IF previous_output = 0
       THEN Panic
       ELSE /\ IF CanSpawn(Command)
               THEN /\ SetWorld(Sinks.w)
                    /\ Spawned(index, previous_output, "piped", "inherit")
                    /\ pc' = "middle_wait"
                    /\ previous_output' = 0
                    /\ UNCHANGED <<index, previous_child>>
               ELSE /\ SetWorld(WriteSink(Sinks.w, Sinks.stderr, FailedToSpawn(Command)))
                    /\ NotSpawned
                    /\ StageDone(previous_child, 0)
            /\ UNCHANGED <<lines, pipeline, running, pipe_buf, err_buf, cwd, exit_status,
                           parser_vars, env_vars>>

\* main.rs lines 240-246: the middle command is spawned; the child before it
\* is waited on, then the new child takes its place
MiddleWait ==
    /\ pc = "middle_wait"
    /\ previous_child # 0 => proc[previous_child] = "exited"
    /\ proc' = IF previous_child # 0
               THEN [proc EXCEPT ![previous_child] = "waited"]
               ELSE proc
    /\ StageDone(index, index)
    /\ UNCHANGED <<lines, pipeline, running, stdin_of, stdout_of, stderr_of,
                   pipe_buf, err_buf, term_out, term_err, fs, opens, cwd, exit_status,
                   parser_vars, env_vars>>

\* main.rs lines 255-269: the last command of a pipeline
DispatchLast ==
    /\ AtStage
    /\ ~IsBuiltin(Command)
    /\ Len(pipeline) > 1
    /\ index = Len(pipeline)
    /\ IF previous_output = 0
       THEN Panic
       ELSE /\ RunExecutable(previous_output, previous_child)
            /\ UNCHANGED <<lines, pipeline, pipe_buf, err_buf, cwd, exit_status,
                           parser_vars, env_vars>>

\* main.rs lines 383-385: previous_child.wait() after a spawn with both
\* streams inherited
RunWaitPrevious ==
    /\ pc = "run_wait_previous"
    /\ running.child # 0 => proc[running.child] = "exited"
    /\ proc' = IF running.child # 0
               THEN [proc EXCEPT ![running.child] = "waited"]
               ELSE proc
    /\ pc' = "run_wait_spawned"
    /\ UNCHANGED <<lines, pipeline, index, previous_child, previous_output, running,
                   stdin_of, stdout_of, stderr_of, pipe_buf, err_buf, term_out, term_err,
                   fs, opens, cwd, exit_status, parser_vars, env_vars>>

\* run_executable as it would be if it returned without spawned.wait()
RunWithoutWaitOnSpawned ==
    /\ pc = "run_wait_spawned"
    /\ running' = NoRun
    /\ StageDone(0, 0)
    /\ UNCHANGED <<lines, pipeline, proc, stdin_of, stdout_of, stderr_of, pipe_buf, err_buf,
                   term_out, term_err, fs, opens, cwd, exit_status, parser_vars, env_vars>>

\* main.rs line 387: spawned.wait(), then run_executable returns
RunWaitSpawned ==
    /\ pc = "run_wait_spawned"
    /\ proc[running.stage] = "exited"
    /\ proc' = [proc EXCEPT ![running.stage] = "waited"]
    /\ running' = NoRun
    /\ StageDone(0, 0)
    /\ UNCHANGED <<lines, pipeline, stdin_of, stdout_of, stderr_of, pipe_buf, err_buf,
                   term_out, term_err, fs, opens, cwd, exit_status, parser_vars, env_vars>>

\* main.rs lines 389-392: Command::output() returns when the child has
\* closed both pipes and has been waited on
RunOutput ==
    /\ pc = "run_output"
    /\ proc[running.stage] = "exited"
    /\ proc' = [proc EXCEPT ![running.stage] = "waited"]
    /\ pc' = "run_output_wait_previous"
    /\ UNCHANGED <<lines, pipeline, index, previous_child, previous_output, running,
                   stdin_of, stdout_of, stderr_of, pipe_buf, err_buf, term_out, term_err,
                   fs, opens, cwd, exit_status, parser_vars, env_vars>>

\* main.rs lines 394-408 and 212, 267: previous_child.wait(), then what was
\* captured is written to the stage's sinks, or the error of output() is
\* reported by main
RunOutputWaitPrevious ==
    /\ pc = "run_output_wait_previous"
    /\ running.child # 0 => proc[running.child] = "exited"
    /\ proc' = IF running.child # 0
               THEN [proc EXCEPT ![running.child] = "waited"]
               ELSE proc
    /\ SetWorld(IF running.output_ok
                THEN WriteSink(WriteSink(CurrentWorld, running.stdout,
                                         pipe_buf[running.stage]),
                               running.stderr, err_buf[running.stage])
                ELSE WriteSink(CurrentWorld, running.stderr,
                               <<"E", "r", "r", "o", "r", ":", " ">> \o ENOENT_DEBUG \o <<CHAR_NEWLINE>>))
    /\ running' = NoRun
    /\ StageDone(0, 0)
    /\ UNCHANGED <<lines, pipeline, stdin_of, stdout_of, stderr_of, pipe_buf, err_buf,
                   cwd, exit_status, parser_vars, env_vars>>

\* the external program of stage i runs to its end: it writes to whatever
\* its stdout and stderr are attached to, and exits
ChildRun(i) ==
    /\ proc[i] = "running"
    /\ proc' = [proc EXCEPT ![i] = "exited"]
    /\ term_out' = IF stdout_of[i] = "inherit" THEN term_out \o ChildOut(i) ELSE term_out
    /\ pipe_buf' = IF stdout_of[i] = "piped"
                   THEN [pipe_buf EXCEPT ![i] = @ \o ChildOut(i)]
                   ELSE pipe_buf
    /\ term_err' = IF stderr_of[i] = "inherit" THEN term_err \o ChildErr(i) ELSE term_err
    /\ err_buf' = IF stderr_of[i] = "piped"
                  THEN [err_buf EXCEPT ![i] = @ \o ChildErr(i)]
                  ELSE err_buf
    /\ UNCHANGED <<pc, lines, pipeline, index, previous_child, previous_output, running,
                   stdin_of, stdout_of, stderr_of, fs, opens, cwd, exit_status,
                   parser_vars, env_vars>>

ChildRuns == \E i \in StageIds : ChildRun(i)

\* a file is absent, or holds five bytes written before the shell started
OLD_CONTENT == <<"0", "1", "2", "3", "4">>
InitialFiles == [Files -> {None, Some(OLD_CONTENT)}]

Init ==
    /\ InitParserIdle
    /\ InitExecutor
    /\ fs \in InitialFiles

Next ==
    \/ ReadLine
    \/ DiscardLine
    \/ DispatchBuiltin
    \/ DispatchSingle
    \/ DispatchFirst
    \/ DispatchMiddle
    \/ MiddleWait
    \/ DispatchLast
    \/ RunWaitPrevious
    \/ RunWaitSpawned
    \/ RunOutput
    \/ RunOutputWaitPrevious
    \/ ChildRuns

Spec == Init /\ [][Next]_vars

(***************************************************************************)
(* SpecParser: parse_input of parser.rs, one character a step, on every    *)
(* line of at most MaxInputLen characters of Alphabet                      *)
(***************************************************************************)
MaxInputLen == 4

Alphabet == {"a", " ", CHAR_SINGLE_QUOTE, CHAR_DOUBLE_QUOTE, CHAR_BACKSLASH, CHAR_PIPE,
             CHAR_GREATER_THAN, STDOUT_FILE_DESCRIPTOR, STDERR_FILE_DESCRIPTOR,
             STDOUT_STDERR_FILE_DESCRIPTOR}

Inputs == UNION { [1..n -> Alphabet] : n \in 0..MaxInputLen }

InitParser ==
    /\ input \in Inputs
    /\ parser = ParserStart(input)
    /\ result = None
    /\ ppc = "scan"
    /\ InitExecutor
    /\ fs = [p \in Files |-> None]

\* parser.rs lines 93-244: one turn of the character loop
ParseStep ==
    /\ ppc = "scan"
    /\ parser.characters # <<>>
    /\ parser' = ParseChar(parser, TRUE)
    /\ UNCHANGED <<input, result, ppc, exec_vars, env_vars>>

\* parser.rs lines 246-273: the input is used up, parse_input returns
ParseFinish ==
    /\ ppc = "scan"
    /\ parser.characters = <<>>
    /\ parser' = ParseEnd(parser)
    /\ result' = ParseReturn(parser')
    /\ ppc' = "returned"
    /\ UNCHANGED <<input, exec_vars, env_vars>>

NextParser == ParseStep \/ ParseFinish

SpecParser == InitParser /\ [][NextParser]_vars

(***************************************************************************)
(* SpecRedirection: lines of one echo with a redirection to FILE_F, run    *)
(* one after the other on a file that is absent or holds OLD_CONTENT       *)
(***************************************************************************)
MaxRedirectionLines == 2

RedirectionLines ==
    { << ParsedCommand(ARGV_ECHO_HI, Truncating(FILE_F), NoRedirection) >>,
      << ParsedCommand(ARGV_ECHO_BYE, Appending(FILE_F), NoRedirection) >>,
      << ParsedCommand(ARGV_ECHO_BYE, Truncating(FILE_F), NoRedirection) >>,
      << ParsedCommand(ARGV_ECHO_HI, Appending(FILE_F), NoRedirection) >> }

ReadRedirectionLine == ReadLineFrom(RedirectionLines, MaxRedirectionLines)

NextRedirection == ReadRedirectionLine \/ DispatchBuiltin

SpecRedirection == Init /\ [][NextRedirection]_vars

(***************************************************************************)
(* SpecLines: parse_input of parser.rs, one character a step, on lines     *)
(* built from words, quotes, escapes, redirections and pipes               *)
(***************************************************************************)
\* the non-empty strings of at most n characters of S
Strings(S, n) == UNION { [1..k -> S] : k \in 1..n }

WORD_CMD == <<"c", "m", "d">>

MaxQuotedLen == 2

\* what a single-quoted string is made of: anything but the single quote
QuotedAlphabet == {"a", " ", CHAR_DOUBLE_QUOTE, CHAR_BACKSLASH, CHAR_PIPE, CHAR_GREATER_THAN,
                   STDOUT_FILE_DESCRIPTOR, STDERR_FILE_DESCRIPTOR,
                   STDOUT_STDERR_FILE_DESCRIPTOR}

\* cmd 's'
SingleQuoted(s) == WORD_CMD \o <<" ", CHAR_SINGLE_QUOTE>> \o s \o <<CHAR_SINGLE_QUOTE>>
SingleQuotedLines == { SingleQuoted(s) : s \in Strings(QuotedAlphabet, MaxQuotedLen) }

MaxJoinLen == 6

\* words and single quotes side by side: lines of a letter, the blank and the
\* single quote in which every quote that opens is closed
JoinAlphabet == {"a", " ", CHAR_SINGLE_QUOTE}
Balanced(s) == Cardinality({k \in 1..Len(s) : s[k] = CHAR_SINGLE_QUOTE}) % 2 = 0
JoinLines == { s \in Strings(JoinAlphabet, MaxJoinLen) : Balanced(s) }

\* a backslash outside quotes: what stands before it in its token, the
\* character it escapes, and what follows that character
EscapePrefixes == {<<>>, <<"a">>}
EscapedCharacters == {"a", " ", CHAR_SINGLE_QUOTE, CHAR_DOUBLE_QUOTE, CHAR_BACKSLASH, CHAR_PIPE,
                      CHAR_GREATER_THAN, STDOUT_FILE_DESCRIPTOR, STDERR_FILE_DESCRIPTOR,
                      STDOUT_STDERR_FILE_DESCRIPTOR}
EscapeSuffixes == {<<>>, <<"a">>, <<" ", "a">>}
Escaped(prefix, c, suffix) == prefix \o <<CHAR_BACKSLASH, c>> \o suffix
\* an escaped blank that ends the line is left out: str::trim takes it away
\* before the character loop sees it
EscapeCases ==
    { x \in EscapePrefixes \X EscapedCharacters \X EscapeSuffixes :
        ~(IsWhitespace(x[2]) /\ x[3] = <<>>) }
EscapeLines == { Escaped(x[1], x[2], x[3]) : x \in EscapeCases }

MaxUnits == 2

\* a double-quoted string as a row of units: a unit is one plain character,
\* or a backslash and the character after it
PlainUnits == { <<c>> : c \in {"a", " "} }
EscapingCharacters == {CHAR_BACKTICK, CHAR_BACKSLASH, CHAR_DOLLAR_SIGN, CHAR_DOUBLE_QUOTE,
                       CHAR_EXCLAMATION_MARK}
OtherCharacters == {"a", "n", " ", CHAR_SINGLE_QUOTE, CHAR_PIPE, CHAR_GREATER_THAN,
                    STDOUT_FILE_DESCRIPTOR}
BackslashUnits == { <<CHAR_BACKSLASH, c>> : c \in EscapingCharacters \cup OtherCharacters }
UnitRows == Strings(PlainUnits \cup BackslashUnits, MaxUnits)

RECURSIVE Flatten(_)
Flatten(row) == IF row = <<>> THEN <<>> ELSE Head(row) \o Flatten(Tail(row))

\* cmd "body"
DoubleQuoted(body) == WORD_CMD \o <<" ", CHAR_DOUBLE_QUOTE>> \o body \o <<CHAR_DOUBLE_QUOTE>>
DoubleQuotedLines == { DoubleQuoted(Flatten(row)) : row \in UnitRows }

\* echo 'a b'  "c\"d"
LINE_ECHO_QUOTED ==
    COMMAND_ECHO \o <<" ", CHAR_SINGLE_QUOTE, "a", " ", "b", CHAR_SINGLE_QUOTE, " ", " ",
                      CHAR_DOUBLE_QUOTE, "c", CHAR_BACKSLASH, CHAR_DOUBLE_QUOTE, "d",
                      CHAR_DOUBLE_QUOTE>>

\* the redirection operators: their text, the streams they select, and
\* whether they append
Operator(text, out, err, append) == [text |-> text, out |-> out, err |-> err, append |-> append]
StdoutOperators ==
    { Operator(<<CHAR_GREATER_THAN>>, TRUE, FALSE, FALSE),
      Operator(<<CHAR_GREATER_THAN, CHAR_GREATER_THAN>>, TRUE, FALSE, TRUE),
      Operator(<<STDOUT_FILE_DESCRIPTOR, CHAR_GREATER_THAN>>, TRUE, FALSE, FALSE),
      Operator(<<STDOUT_FILE_DESCRIPTOR, CHAR_GREATER_THAN, CHAR_GREATER_THAN>>, TRUE, FALSE, TRUE) }
StderrOperators ==
    { Operator(<<STDERR_FILE_DESCRIPTOR, CHAR_GREATER_THAN>>, FALSE, TRUE, FALSE),
      Operator(<<STDERR_FILE_DESCRIPTOR, CHAR_GREATER_THAN, CHAR_GREATER_THAN>>, FALSE, TRUE, TRUE) }
BothOperators ==
    { Operator(<<STDOUT_STDERR_FILE_DESCRIPTOR, CHAR_GREATER_THAN>>, TRUE, TRUE, FALSE),
      Operator(<<STDOUT_STDERR_FILE_DESCRIPTOR, CHAR_GREATER_THAN, CHAR_GREATER_THAN>>, TRUE, TRUE, TRUE) }

WORD_X == <<"x">>
Gaps == {<<>>, <<" ">>}
Tails == {<<>>, <<" ">> \o WORD_X}

\* cmd &> f x, with or without a blank before the path, with or without x
BothLine(op, gap, tail) == WORD_CMD \o <<" ">> \o op.text \o gap \o FILE_F \o tail
BothLines == { BothLine(op, gap, tail) : op \in BothOperators, gap \in Gaps, tail \in Tails }

\* one redirection, or one of stdout and one of stderr in either order; the
\* first goes to f and the second to g
OperatorRows ==
    { <<op>> : op \in StdoutOperators \cup StderrOperators \cup BothOperators }
    \cup { <<o, e>> : o \in StdoutOperators, e \in StderrOperators }
    \cup { <<e, o>> : e \in StderrOperators, o \in StdoutOperators }

\* nothing, or the argument '>'
QuotedTails == {<<>>, <<" ", CHAR_SINGLE_QUOTE, CHAR_GREATER_THAN, CHAR_SINGLE_QUOTE>>}

\* cmd >> f 2>> g '>'
AppendLine(row, tail) ==
    WORD_CMD \o <<" ">> \o row[1].text \o <<" ">> \o FILE_F
    \o (IF Len(row) = 2 THEN <<" ">> \o row[2].text \o <<" ">> \o FILE_G ELSE <<>>)
    \o tail
\* &> and &>> are tried without the quoted argument: parse_input is still in
\* the redirection of stderr when it reads what follows their path
AppendCases ==
    { x \in OperatorRows \X QuotedTails : x[1][1] \in BothOperators => x[2] = <<>> }
AppendLines == { AppendLine(x[1], x[2]) : x \in AppendCases }

MaxLineStages == 3

\* the text of a stage and the stage it stands for
StageText(text, stage) == [text |-> text, stage |-> stage]
StageTexts ==
    { StageText(<<"c", "a", "t">>,
                ParsedCommand(<< <<"c", "a", "t">> >>, NoRedirection, NoRedirection)),
      StageText(COMMAND_ECHO \o <<" ", "a">>,
                ParsedCommand(<< COMMAND_ECHO, <<"a">> >>, NoRedirection, NoRedirection)),
      StageText(WORD_CMD \o <<" ", CHAR_GREATER_THAN>> \o FILE_F,
                ParsedCommand(<< WORD_CMD >>, Truncating(FILE_F), NoRedirection)),
      StageText(COMMAND_ECHO \o <<" ", CHAR_SINGLE_QUOTE, CHAR_PIPE, CHAR_SINGLE_QUOTE>>,
                ParsedCommand(<< COMMAND_ECHO, <<CHAR_PIPE>> >>, NoRedirection, NoRedirection)) }

\* a pipe with nothing around it, or with a blank on each side
Separators == { <<CHAR_PIPE>>, <<" ", CHAR_PIPE, " ">> }

StageRows == UNION { [1..n -> StageTexts] : n \in 2..MaxLineStages }

RECURSIVE Joined(_, _)
Joined(row, separator) ==
    IF Len(row) = 1 THEN row[1].text
    ELSE row[1].text \o separator \o Joined(Tail(row), separator)
PipeLines == { Joined(row, separator) : row \in StageRows, separator \in Separators }

\* the text of a redirection target and the path it stands for
Target(text, path) == [text |-> text, path |-> path]
Targets ==
    { Target(FILE_F, FILE_F),
      Target(<<CHAR_SINGLE_QUOTE>> \o FILE_F \o <<CHAR_SINGLE_QUOTE>>, FILE_F),
      Target(<<CHAR_SINGLE_QUOTE, "m", " ", "f", CHAR_SINGLE_QUOTE>>, <<"m", " ", "f">>),
      Target(<<CHAR_DOUBLE_QUOTE, "m", " ", "f", CHAR_DOUBLE_QUOTE>>, <<"m", " ", "f">>) }

\* cmd > 'm f' x
TargetLine(op, target) ==
    WORD_CMD \o <<" ">> \o op.text \o <<" ">> \o target.text \o <<" ">> \o WORD_X
TargetLines ==
    { TargetLine(op, target) : op \in StdoutOperators \cup StderrOperators, target \in Targets }

Lines == SingleQuotedLines \cup JoinLines \cup EscapeLines \cup DoubleQuotedLines
         \cup {LINE_ECHO_QUOTED} \cup BothLines \cup AppendLines \cup PipeLines
         \cup TargetLines

InitLines ==
    /\ input \in Lines
    /\ parser = ParserStart(input)
    /\ result = None
    /\ ppc = "scan"
    /\ InitExecutor
    /\ fs = [p \in Files |-> None]

SpecLines == InitLines /\ [][NextParser]_vars

(***************************************************************************)
(* SpecBuiltins: lines of one builtin each, exit and cd with the arguments *)
(* that tell their cases apart, run one after the other                    *)
(***************************************************************************)
MaxBuiltinLines == 2

\* the arguments exit is tried with
ExitArguments ==
    { <<>>,
      << <<"3">> >>,
      << <<"0">> >>,
      << <<"1", "7">> >>,
      << <<"a", "b", "c">> >>,
      << <<"3", "x">> >>,
      << <<"3">>, <<"4">> >> }

DIRECTORY_MISSING == <<"/", "n">>
DIRECTORY_RELATIVE == <<"b", "i", "n">>

\* the arguments cd is tried with: none, ~, a directory, a directory relative
\* to the working directory, a path that does not exist, a regular file, and
\* two arguments of which one exists
CdArguments ==
    { <<>>,
      << HOME_DIRECTORY >>,
      << <<"/", "b", "i", "n">> >>,
      << DIRECTORY_RELATIVE >>,
      << DIRECTORY_MISSING >>,
      << <<"/", "b", "i", "n", "/", "c", "a", "t">> >>,
      << DIRECTORY_MISSING, ENVIRONMENT_VARIABLE_HOME >>,
      << ENVIRONMENT_VARIABLE_HOME, DIRECTORY_MISSING >> }

BuiltinLines ==
    { << ParsedCommand(<<COMMAND_EXIT>> \o arguments, NoRedirection, NoRedirection) >> :
        arguments \in ExitArguments }
    \cup { << ParsedCommand(<<COMMAND_CD>> \o arguments, NoRedirection, stderr) >> :
             arguments \in CdArguments, stderr \in {NoRedirection, Truncating(FILE_G)} }
    \cup { << ParsedCommand(<<COMMAND_PWD>>, NoRedirection, NoRedirection) >> }

ReadBuiltinLine == ReadLineFrom(BuiltinLines, MaxBuiltinLines)

NextBuiltins == ReadBuiltinLine \/ DispatchBuiltin

SpecBuiltins == Init /\ [][NextBuiltins]_vars

(***************************************************************************)
(* SpecSearch: lines of one type each, run under every PATH of one to      *)
(* MaxPathLen of the directories that exist                                *)
(***************************************************************************)
MaxPathLen == 3
MaxSearchLines == 1

COMMAND_HISTORY == <<"h", "i", "s", "t", "o", "r", "y">>

Paths == UNION { [1..n -> Directories] : n \in 1..MaxPathLen }

\* the names type is asked about: the builtins, a name of two executables, a
\* name whose first entry lacks the execute bits, a name whose first entry
\* is a directory, a name of no entry, and names that are builtins elsewhere
SearchNames ==
    { COMMAND_CD, COMMAND_ECHO, COMMAND_EXIT, COMMAND_PWD, COMMAND_TYPE, COMMAND_HISTORY,
      <<"c", "a", "t">>, <<"l", "s">>, <<"b", "i", "n">>, <<"n", "o", "p", "e">> }

SearchLines ==
    { << ParsedCommand(<<COMMAND_TYPE, name>>, NoRedirection, NoRedirection) >> :
        name \in SearchNames }

InitSearch ==
    /\ InitParserIdle
    /\ InitProcess
    /\ env_path \in Paths
    /\ streams = NoStreams
    /\ fs = [p \in Files |-> None]

ReadSearchLine == ReadLineFrom(SearchLines, MaxSearchLines)

NextSearch == ReadSearchLine \/ DispatchBuiltin

SpecSearch == InitSearch /\ [][NextSearch]_vars

(***************************************************************************)
(* SpecEcho: lines of one echo typed at the prompt, parsed by parse_input  *)
(* of main.rs one character a step, and run                                *)
(***************************************************************************)
MaxEchoUnits == 2
MaxEchoLines == 1

\* what is typed between quotes: the text, and what echo -e makes of it
EchoUnit(text, expanded) == [text |-> text, expanded |-> expanded]

\* a letter, a blank, the escapes echo -e knows and one it does not know
CommonUnits ==
    { EchoUnit(<<"a">>, <<"a">>),
      EchoUnit(<<" ">>, <<" ">>),
      EchoUnit(<<CHAR_BACKSLASH, "n">>, <<CHAR_NEWLINE>>),
      EchoUnit(<<CHAR_BACKSLASH, "t">>, <<CHAR_TAB>>),
      EchoUnit(<<CHAR_BACKSLASH, "r">>, <<CHAR_CARRIAGE_RETURN>>),
      EchoUnit(<<CHAR_BACKSLASH, "0">>, <<CHAR_NULL>>),
      EchoUnit(<<CHAR_BACKSLASH, "q">>, <<CHAR_BACKSLASH, "q">>) }

\* between single quotes the backslash and the double quote stand for themselves
SingleQuotedUnits ==
    CommonUnits \cup { EchoUnit(<<CHAR_BACKSLASH, CHAR_BACKSLASH>>, <<CHAR_BACKSLASH>>),
                       EchoUnit(<<CHAR_BACKSLASH, CHAR_DOUBLE_QUOTE>>, <<CHAR_DOUBLE_QUOTE>>) }

\* between double quotes a backslash before a single quote stays
DoubleQuotedUnits ==
    CommonUnits \cup { EchoUnit(<<CHAR_BACKSLASH, CHAR_SINGLE_QUOTE>>, <<CHAR_SINGLE_QUOTE>>) }

RECURSIVE TextOf(_)
TextOf(units) == IF units = <<>> THEN <<>> ELSE Head(units).text \o TextOf(Tail(units))

RECURSIVE ExpandedOf(_)
ExpandedOf(units) == IF units = <<>> THEN <<>> ELSE Head(units).expanded \o ExpandedOf(Tail(units))

\* a word of the line: what is typed, the argument it stands for, and what
\* echo -e writes for that argument
EchoWord(typed, argument, expanded) ==
    [typed |-> typed, argument |-> argument, expanded |-> expanded]

QuotedWord(quote, units) ==
    EchoWord(<<quote>> \o TextOf(units) \o <<quote>>, TextOf(units), ExpandedOf(units))

WORD_A == EchoWord(<<"a">>, <<"a">>, <<"a">>)
WORD_FLAG == EchoWord(COMMAND_ECHO_FLAG_EXPAND_ESCAPE, COMMAND_ECHO_FLAG_EXPAND_ESCAPE,
                      COMMAND_ECHO_FLAG_EXPAND_ESCAPE)

QuotedWords ==
    { QuotedWord(CHAR_SINGLE_QUOTE, units) : units \in Strings(SingleQuotedUnits, MaxEchoUnits) }
    \cup { QuotedWord(CHAR_DOUBLE_QUOTE, units) : units \in Strings(DoubleQuotedUnits, MaxEchoUnits) }

\* the second word after the flag position
LaterWords ==
    { WORD_A, WORD_FLAG,
      QuotedWord(CHAR_DOUBLE_QUOTE, << EchoUnit(<<"a">>, <<"a">>),
                                       EchoUnit(<<CHAR_BACKSLASH, "t">>, <<CHAR_TAB>>) >>) }

\* echo, -e or not, then no, one or two words
EchoWordRows ==
    { prefix \o first \o second :
        prefix \in { <<>>, <<WORD_FLAG>> },
        first \in { <<>> } \cup { <<w>> : w \in QuotedWords \cup {WORD_A, WORD_FLAG} },
        second \in { <<>> } \cup { <<w>> : w \in LaterWords } }

RECURSIVE EchoTyped(_)
EchoTyped(row) == IF row = <<>> THEN <<>> ELSE <<" ">> \o Head(row).typed \o EchoTyped(Tail(row))

EchoLine(row) == COMMAND_ECHO \o EchoTyped(row)

EchoLines == { EchoLine(row) : row \in EchoWordRows }

InitEcho ==
    /\ input \in EchoLines
    /\ parser = ParserStart(input)
    /\ result = None
    /\ ppc = "scan"
    /\ InitExecutor
    /\ fs = [p \in Files |-> None]

\* main.rs lines 473-625: one turn of the character loop
ParseStepOfMain ==
    /\ ppc = "scan"
    /\ parser.characters # <<>>
    /\ parser' = ParseChar(parser, FALSE)
    /\ UNCHANGED <<input, result, ppc, exec_vars, env_vars>>

\* main.rs line 155: the line that was typed is the line that is run
ReadParsedLine ==
    /\ ppc = "returned"
    /\ result.is_some
    /\ ReadLineFrom({result.value}, MaxEchoLines)

NextEcho == ParseStepOfMain \/ ParseFinish \/ ReadParsedLine \/ DispatchBuiltin

SpecEcho == InitEcho /\ [][NextEcho]_vars

(***************************************************************************)
(* SpecHistory: command_history of commands.rs, called on the log the      *)
(* line editor keeps; the editor appends an entry for a line it has read   *)
(***************************************************************************)
MaxHistoryLen == 3
MaxHistoryLines == 1

\* str::parse::<usize>: an optional +, then one or more decimal digits.  A
\* value of more than twenty digits overflows; one of ten to twenty digits
\* overflows or is at least 10^9, and stands here as 10^9
ParseUsize(s) ==
    LET all_digits == IF StartsWith(s, "+") THEN Tail(s) ELSE s
        digits == StripZeros(all_digits)
    IN  IF all_digits # <<>>
           /\ (\A k \in 1..Len(all_digits) : DigitValue(all_digits[k]) >= 0)
           /\ Len(digits) <= 20
        THEN Some(IF Len(digits) <= 9 THEN DigitsValue(digits, 0) ELSE 1000000000)
        ELSE None

\* the decimal digits of a number
RECURSIVE Decimal(_)
Decimal(n) == IF n < 10 THEN <<DigitChar(n)>> ELSE Decimal(n \div 10) \o <<DigitChar(n % 10)>>

\* {:>5}: blanks in front up to a width of five
RECURSIVE PadLeft5(_)
PadLeft5(s) == IF Len(s) >= 5 THEN s ELSE PadLeft5(<<" ">> \o s)

\* writeln!(stdout, "{:>5}  {}", i + 1, entry.entry)
HistoryLine(i, entry) == PadLeft5(Decimal(i + 1)) \o <<" ", " ">> \o entry \o <<CHAR_NEWLINE>>

\* for i in start_index..len
RECURSIVE HistoryFrom(_, _)
HistoryFrom(log, i) ==
    IF i >= Len(log) THEN <<>>
    ELSE HistoryLine(i, log[i + 1]) \o HistoryFrom(log, i + 1)

\* start_index as it would be without the test count > 0
StartIndexOfAnyCount(len, count) == IF len > count THEN len - count ELSE 0

\* len.saturating_sub(count) when count > 0, else 0
StartIndex(len, count) ==
    IF count > 0 THEN (IF len > count THEN len - count ELSE 0) ELSE 0

\* arguments are the words after the command name
command_history(w, log, arguments, stdout, stderr) ==
    LET count == IF arguments # <<>>
                 THEN (IF ParseUsize(arguments[1]).is_some
                       THEN ParseUsize(arguments[1]).value ELSE 0)
                 ELSE 0
    IN  WriteSink(w, stdout, HistoryFrom(log, StartIndex(Len(log), count)))

HistoryEntries == { <<"l", "s">>, <<"p", "w", "d">> }

\* a count of twenty-one digits
HUGE_COUNT == [k \in 1..21 |-> "9"]

HistoryArguments ==
    { <<>>,
      << <<"0">> >>,
      << <<"1">> >>,
      << <<"2">> >>,
      << <<"3">> >>,
      << <<"4">> >>,
      << <<"9">> >>,
      << <<"0", "2">> >>,
      << <<"+", "2">> >>,
      << <<"x">> >>,
      << <<"2", "x">> >>,
      << HUGE_COUNT >>,
      << <<"1">>, <<"2">> >> }

\* the line editor has read a line and adds it at the end of its history
AppendHistory ==
    /\ pc = "prompt"
    /\ Len(history) < MaxHistoryLen
    /\ \E entry \in HistoryEntries : history' = Append(history, entry)
    /\ UNCHANGED <<env_path, streams, exec_vars, parser_vars>>

\* history is run with the given arguments, its streams the shell's own
CallHistory ==
    /\ pc = "prompt"
    /\ lines < MaxHistoryLines
    /\ \E arguments \in HistoryArguments :
         /\ pipeline' = << ParsedCommand(<<COMMAND_HISTORY>> \o arguments,
                                         NoRedirection, NoRedirection) >>
         /\ SetWorld(command_history([CurrentWorld EXCEPT !.term_out = <<>>, !.term_err = <<>>],
                                     history, arguments, StdoutSink, StderrSink))
    /\ lines' = lines + 1
    /\ UNCHANGED <<pc, index, previous_child, previous_output, running, proc, stdin_of,
                   stdout_of, stderr_of, pipe_buf, err_buf, cwd, exit_status,
                   parser_vars, env_vars>>

InitHistory ==
    /\ InitParserIdle
    /\ InitExecutor
    /\ fs = [p \in Files |-> None]

NextHistory == AppendHistory \/ CallHistory

SpecHistory == InitHistory /\ [][NextHistory]_vars

(***************************************************************************)
(* SpecStreams: the executor of main.rs on pipelines of external programs  *)
(* that copy their stdin to their stdout, the first of which writes a      *)
(* number of bytes of its own, through pipes that hold PipeCapacity bytes. *)
(* A program takes a byte when its stdin has one, writes when its stdout   *)
(* accepts, and exits when its stdin is at its end and all is written.     *)
(***************************************************************************)
PipeCapacity == 1
MaxVolume == 4

\* a write to the stdout of stage i is accepted: by the terminal always, by
\* a pipe while it is not full
StdoutAccepts(i) == stdout_of[i] = "inherit" \/ streams.fill[i] < PipeCapacity
StderrAccepts(i) == stderr_of[i] = "inherit" \/ streams.err_fill[i] < PipeCapacity

\* read() on the stdin of stage i returns 0: it is /dev/null, or an empty
\* pipe whose writer is gone
StdinAtEnd(i) ==
    \/ stdin_of[i] = 0
    \/ stdin_of[i] > 0 /\ streams.fill[stdin_of[i]] = 0
                       /\ proc[stdin_of[i]] \in {"exited", "waited"}

ChildSteps(s) ==
    /\ streams' = s
    /\ UNCHANGED <<env_path, history, pc, lines, pipeline, index, previous_child,
                   previous_output, running, stdin_of, stdout_of, stderr_of, pipe_buf,
                   err_buf, fs, opens, cwd, exit_status, parser_vars>>

\* the program of stage i writes one byte to its stdout: the byte it holds,
\* or one of its own
ChildWrite(i) ==
    /\ proc[i] = "running"
    /\ streams.held[i] > 0 \/ streams.out_todo[i] > 0
    /\ StdoutAccepts(i)
    /\ LET taken == IF streams.held[i] > 0
                    THEN [streams EXCEPT !.held[i] = 0]
                    ELSE [streams EXCEPT !.out_todo[i] = @ - 1]
       IN  IF stdout_of[i] = "inherit"
           THEN ChildSteps(taken) /\ term_out' = Append(term_out, "x")
           ELSE ChildSteps([taken EXCEPT !.fill[i] = @ + 1]) /\ UNCHANGED term_out
    /\ UNCHANGED <<proc, term_err>>

\* the program of stage i writes one byte of its own to its stderr
ChildWriteErr(i) ==
    /\ proc[i] = "running"
    /\ streams.err_todo[i] > 0
    /\ StderrAccepts(i)
    /\ LET taken == [streams EXCEPT !.err_todo[i] = @ - 1]
       IN  IF stderr_of[i] = "inherit"
           THEN ChildSteps(taken) /\ term_err' = Append(term_err, "x")
           ELSE ChildSteps([taken EXCEPT !.err_fill[i] = @ + 1]) /\ UNCHANGED term_err
    /\ UNCHANGED <<proc, term_out>>

\* the program of stage i takes one byte from its stdin
ChildRead(i) ==
    /\ proc[i] = "running"
    /\ streams.held[i] = 0
    /\ stdin_of[i] > 0
    /\ streams.fill[stdin_of[i]] > 0
    /\ ChildSteps([streams EXCEPT !.fill[stdin_of[i]] = @ - 1, !.held[i] = 1])
    /\ UNCHANGED <<proc, term_out, term_err>>

\* the program of stage i has seen the end of its stdin and has written all
\* it had: it exits, which closes its ends of the pipes
ChildExit(i) ==
    /\ proc[i] = "running"
    /\ streams.held[i] = 0 /\ streams.out_todo[i] = 0 /\ streams.err_todo[i] = 0
    /\ StdinAtEnd(i)
    /\ proc' = [proc EXCEPT ![i] = "exited"]
    /\ ChildSteps(streams)
    /\ UNCHANGED <<term_out, term_err>>

ChildWrites == \E i \in StageIds : ChildWrite(i)
ChildWritesErr == \E i \in StageIds : ChildWriteErr(i)
ChildReads == \E i \in StageIds : ChildRead(i)
ChildExits == \E i \in StageIds : ChildExit(i)

\* cat | cat and cat | cat | cat, and so on up to MaxStages
StreamPipelines ==
    { [k \in 1..n |-> ParsedCommand(ARGV_CAT, NoRedirection, NoRedirection)] : n \in 2..MaxStages }

InitStreams ==
    /\ InitParserIdle
    /\ InitProcess
    /\ env_path = ENVIRONMENT_VARIABLE_PATH
    /\ \E volume \in 0..MaxVolume : streams = [NoStreams EXCEPT !.out_todo[1] = volume]
    /\ fs = [p \in Files |-> None]

ReadStreamLine == ReadLineFrom(StreamPipelines, 1)

NextStreams ==
    \/ ReadStreamLine
    \/ DispatchFirst
    \/ DispatchMiddle
    \/ MiddleWait
    \/ DispatchLast
    \/ RunWaitPrevious
    \/ RunWaitSpawned
    \/ ChildWrites
    \/ ChildReads
    \/ ChildExits

SpecStreams == InitStreams /\ [][NextStreams]_vars

(***************************************************************************)
(* SpecCaptured: run_executable of commands.rs with stdout or stderr of    *)
(* the child captured, with and without a previous child whose stdout is   *)
(* the child's stdin.  The previous child is stage 1, the child stage 2;   *)
(* the sinks are the shell's own streams.                                  *)
(***************************************************************************)
InitCaptured ==
    /\ InitParserIdle
    /\ InitProcess
    /\ env_path = ENVIRONMENT_VARIABLE_PATH
    /\ \E previous_volume \in 0..MaxVolume, out_volume \in 0..MaxVolume,
          err_volume \in 0..MaxVolume :
         streams = [NoStreams EXCEPT !.out_todo[1] = previous_volume,
                                     !.out_todo[2] = out_volume,
                                     !.err_todo[2] = err_volume]
    /\ fs = [p \in Files |-> None]

\* commands.rs lines 65-85: the child is spawned, its stdout and stderr
\* piped unless inherited; the previous child, when there is one, runs
\* already and the pipe of its stdout is the child's stdin
CapturedSpawn ==
    /\ pc = "prompt"
    /\ lines = 0
    /\ \E captured_stdout \in BOOLEAN, captured_stderr \in BOOLEAN, has_previous \in BOOLEAN :
         /\ captured_stdout \/ captured_stderr
         /\ proc' = [proc EXCEPT ![1] = IF has_previous THEN "running" ELSE "none",
                                 ![2] = "running"]
         /\ stdin_of' = [stdin_of EXCEPT ![1] = IF has_previous THEN 0 ELSE -1,
                                         ![2] = IF has_previous THEN 1 ELSE 0]
         /\ stdout_of' = [stdout_of EXCEPT ![1] = IF has_previous THEN "piped" ELSE "none",
                                           ![2] = IF captured_stdout THEN "piped" ELSE "inherit"]
         /\ stderr_of' = [stderr_of EXCEPT ![1] = IF has_previous THEN "inherit" ELSE "none",
                                           ![2] = IF captured_stderr THEN "piped" ELSE "inherit"]
         /\ running' = [stage |-> 2, stdout |-> StdoutSink, stderr |-> StderrSink,
                        child |-> IF has_previous THEN 1 ELSE 0,
                        output_ok |-> TRUE]
    /\ lines' = 1
    /\ pc' = "captured_wait_previous"
    /\ UNCHANGED <<pipeline, index, previous_child, previous_output, pipe_buf, err_buf,
                   term_out, term_err, fs, opens, cwd, exit_status, parser_vars, env_vars>>

\* commands.rs lines 86-88: previous.wait()
CapturedWaitPrevious ==
    /\ pc = "captured_wait_previous"
    /\ running.child # 0 => proc[running.child] = "exited"
    /\ proc' = IF running.child # 0
               THEN [proc EXCEPT ![running.child] = "waited"]
               ELSE proc
    /\ pc' = "captured_copy_stdout"
    /\ UNCHANGED <<lines, pipeline, index, previous_child, previous_output, running,
                   stdin_of, stdout_of, stderr_of, pipe_buf, err_buf, term_out, term_err,
                   fs, opens, cwd, exit_status, parser_vars, env_vars>>

\* commands.rs lines 90-94: io::copy(child_stdout, stdout), a byte a step;
\* it ends when the pipe is empty and the child has closed it
CapturedCopyStdout ==
    /\ pc = "captured_copy_stdout"
    /\ IF stdout_of[running.stage] = "inherit"
       THEN pc' = "captured_copy_stderr" /\ UNCHANGED <<term_out, streams>>
       ELSE IF streams.fill[running.stage] > 0
       THEN /\ streams' = [streams EXCEPT !.fill[running.stage] = @ - 1]
            /\ term_out' = Append(term_out, "x")
            /\ UNCHANGED pc
       ELSE /\ proc[running.stage] = "exited"
            /\ pc' = "captured_copy_stderr"
            /\ UNCHANGED <<term_out, streams>>
    /\ UNCHANGED <<env_path, history, lines, pipeline, index, previous_child, previous_output,
                   running, proc, stdin_of, stdout_of, stderr_of, pipe_buf, err_buf, term_err,
                   fs, opens, cwd, exit_status, parser_vars>>

\* commands.rs lines 96-103: io::copy(child_stderr, stderr), then Ok(child)
CapturedCopyStderr ==
    /\ pc = "captured_copy_stderr"
    /\ IF stderr_of[running.stage] = "inherit"
       THEN pc' = "prompt" /\ UNCHANGED <<term_err, streams>>
       ELSE IF streams.err_fill[running.stage] > 0
       THEN /\ streams' = [streams EXCEPT !.err_fill[running.stage] = @ - 1]
            /\ term_err' = Append(term_err, "x")
            /\ UNCHANGED pc
       ELSE /\ proc[running.stage] = "exited"
            /\ pc' = "prompt"
            /\ UNCHANGED <<term_err, streams>>
    /\ UNCHANGED <<env_path, history, lines, pipeline, index, previous_child, previous_output,
                   running, proc, stdin_of, stdout_of, stderr_of, pipe_buf, err_buf, term_out,
                   fs, opens, cwd, exit_status, parser_vars>>

NextCaptured ==
    \/ CapturedSpawn
    \/ CapturedWaitPrevious
    \/ CapturedCopyStdout
    \/ CapturedCopyStderr
    \/ ChildWrites
    \/ ChildWritesErr
    \/ ChildReads
    \/ ChildExits

SpecCaptured == InitCaptured /\ [][NextCaptured]_vars

(***************************************************************************)
(* SpecDirectory: up to MaxDirectoryLines lines in a row, of one to three   *)
(* stages of which some change directory, some try to and fail, and the     *)
(* others are the builtins, external programs, names not found and          *)
(* redirections                                                            *)
(***************************************************************************)
MaxDirectoryLines == 2

ARGV_PWD == << COMMAND_PWD >>
ARGV_TYPE_CAT == << COMMAND_TYPE, <<"c", "a", "t">> >>

DirectoryStages ==
    { ParsedCommand(<<COMMAND_CD, <<"/", "b", "i", "n">> >>, NoRedirection, NoRedirection),
      ParsedCommand(<<COMMAND_CD, HOME_DIRECTORY>>, NoRedirection, NoRedirection),
      ParsedCommand(<<COMMAND_CD, DIRECTORY_RELATIVE>>, NoRedirection, NoRedirection),
      ParsedCommand(<<COMMAND_CD, DIRECTORY_MISSING>>, NoRedirection, Truncating(FILE_G)),
      ParsedCommand(<<COMMAND_CD, <<"/", "b", "i", "n", "/", "c", "a", "t">> >>,
                    NoRedirection, NoRedirection),
      ParsedCommand(ARGV_ECHO_HI, Truncating(FILE_F), NoRedirection),
      ParsedCommand(ARGV_PWD, NoRedirection, NoRedirection),
      ParsedCommand(ARGV_TYPE_CAT, NoRedirection, NoRedirection),
      ParsedCommand(ARGV_HISTORY, NoRedirection, NoRedirection),
      ParsedCommand(ARGV_CAT, NoRedirection, NoRedirection),
      ParsedCommand(ARGV_CAT, Appending(FILE_F), NoRedirection),
      ParsedCommand(ARGV_NOPE, NoRedirection, Truncating(FILE_G)),
      ParsedCommand(<<>>, Truncating(FILE_F), NoRedirection) }

\* lines of one stage, of two, and of an external program between two
DirectoryLines ==
    { <<stage>> : stage \in DirectoryStages }
    \cup { <<first, last>> : first \in DirectoryStages, last \in DirectoryStages }
    \cup { <<first, ParsedCommand(ARGV_CAT, NoRedirection, NoRedirection),
             ParsedCommand(ARGV_CAT, NoRedirection, NoRedirection)>> :
             first \in DirectoryStages }

ReadDirectoryLine == ReadLineFrom(DirectoryLines, MaxDirectoryLines)

NextDirectory ==
    \/ ReadDirectoryLine
    \/ DiscardLine
    \/ DispatchBuiltin
    \/ DispatchSingle
    \/ DispatchFirst
    \/ DispatchMiddle
    \/ MiddleWait
    \/ DispatchLast
    \/ RunWaitPrevious
    \/ RunWaitSpawned
    \/ RunOutput
    \/ RunOutputWaitPrevious
    \/ ChildRuns

SpecDirectory == Init /\ [][NextDirectory]_vars

(***************************************************************************)
(* Properties                                                              *)
(***************************************************************************)
Contains(s, sub) ==
    \E k \in 0..(Len(s) - Len(sub)) : SubSeq(s, k + 1, k + Len(sub)) = sub

\* stage k of the current line has been dealt with by the for loop
Dispatched(k) == k \in 1..Len(pipeline) /\ k < index

HasTokens(k) == pipeline[k].tokens.is_some
CommandOf(k) == pipeline[k].tokens.value[1]
IsExternalStage(k) == HasTokens(k) /\ ~IsBuiltin(CommandOf(k))

\* no stage of the current line is the empty stage that ends a line unrun
EveryStageHasTokens == \A k \in 1..Len(pipeline) : HasTokens(k)

\* run_executable has the last (or only) stage in hand
InRunExecutable ==
    pc \in {"run_wait_previous", "run_wait_spawned", "run_output",
            "run_output_wait_previous"}

\* C1: in a pipeline of several stages, each with arguments, the file a stage
\* before the last names as its stdout redirection is never opened or created
\* for that stage.
C1_NonFinalStdoutTargetNeverOpened ==
    \A k \in 1..Len(pipeline) :
        (EveryStageHasTokens /\ k < Len(pipeline) /\ pipeline[k].stdout.file_name.is_some)
            => ~(\E j \in 1..Len(opens) :
                    opens[j] = <<k, pipeline[k].stdout.file_name.value>>)

\* C2: in a pipeline whose stages all have arguments, the stdin of every
\* stage after the first is the pipe of the stage right before it, never that
\* of an earlier stage, and what a builtin that is not the last stage writes
\* is in its pipe and not on the terminal.
C2_StdinIsThePreviousStage ==
    EveryStageHasTokens
        => /\ \A k \in 2..Len(pipeline) : stdin_of[k] # -1 => stdin_of[k] = k - 1
           /\ \A k \in 1..Len(pipeline) :
                 (Dispatched(k) /\ k < Len(pipeline)
                    /\ pipeline[k].tokens.value = ARGV_ECHO_HI
                    /\ ~pipeline[k].stdout.file_name.is_some)
                   => /\ pipe_buf[k] = <<"h", "i", "\n">>
                      /\ ~Contains(term_out, <<"h", "i", "\n">>)

\* C3: a line whose stages all have arguments, none of them exit, never ends
\* the shell process: the executor does not abort, whatever the kinds of its
\* stages.
C3_NoLineIsFatal ==
    (\A k \in 1..Len(pipeline) : HasTokens(k) /\ CommandOf(k) # COMMAND_EXIT)
        => (pc # "panicked" /\ exit_status = -1)

\* C4: when the executor is back at the prompt after a line, every child
\* spawned for the line has been waited on.
C4_NoUnreapedChildAtPrompt ==
    (pc = "prompt" /\ lines > 0)
        => \A k \in StageIds : proc[k] \in {"none", "waited"}

\* C5: in a pipeline of several stages, each with arguments, no child is
\* waited on before the last stage has been dispatched.
C5_NoWaitBeforeLastDispatch ==
    (EveryStageHasTokens /\ Len(pipeline) > 1 /\ \E k \in StageIds : proc[k] = "waited")
        => (index > Len(pipeline) \/ InRunExecutable)

\* C6: parse_input returns None for an input whose stages all have zero
\* arguments (an empty or blank input among them), and a non-empty pipeline
\* for any other input.
C6_ParseReturnsNothingWithoutArguments ==
    ppc = "returned"
        => IF \A k \in 1..Len(parser.pipeline) : ~parser.pipeline[k].tokens.is_some
           THEN result = None
           ELSE result.is_some /\ result.value # <<>>

\* a stage whose command is no builtin and resolves to no executable
IsNotFoundStage(k) ==
    /\ IsExternalStage(k)
    /\ ~StartsWith(CommandOf(k), "/")
    /\ ~search_executable(CommandOf(k)).is_some

\* what has reached the stderr sink of stage k
StderrOf(k) ==
    IF pipeline[k].stderr.file_name.is_some
       /\ pipeline[k].stderr.file_name.value \in Files
    THEN LET file == fs[pipeline[k].stderr.file_name.value]
         IN  IF file.is_some THEN file.value ELSE <<>>
    ELSE term_err

\* C7: in a pipeline whose stages all have arguments, a stage whose command
\* is not found has, once the loop is past it, "<name>: command not found" on
\* its stderr sink and no process, at every position of the pipeline.
C7_NotFoundIsReportedAtEveryPosition ==
    \A k \in 1..Len(pipeline) :
        (EveryStageHasTokens /\ Dispatched(k) /\ IsNotFoundStage(k))
            => /\ Contains(StderrOf(k), CommandOf(k) \o <<":", " ", "c", "o", "m", "m", "a", "n", "d", " ", "n", "o", "t", " ", "f", "o", "u", "n", "d", "\n">>)
               /\ proc[k] = "none"

\* C8: in a pipeline whose stages all have arguments, what the program of a
\* stage with 2> g writes to its stderr is in g and not on the terminal, at
\* every position of the pipeline.
C8_StderrRedirectionAtEveryPosition ==
    \A k \in 1..Len(pipeline) :
        (EveryStageHasTokens /\ Dispatched(k) /\ IsExternalStage(k)
           /\ pipeline[k].stderr.file_name = Some(FILE_G)
           /\ proc[k] \in {"exited", "waited"})
            => /\ Contains(StderrOf(k), ChildErr(k))
               /\ ~Contains(term_err, ChildErr(k))

\* the step in which the shell runs the only stage of the line `line`
Runs(line) == pc = "loop" /\ pipeline = line /\ pc' = "prompt"

\* C9: echo hi > f leaves exactly hi\n in f whatever f held before, and
\* echo bye >> f adds bye\n at the end of what f held, so that the two in a
\* row leave hi\nbye\n.
C9_TruncateThenAppend ==
    [][ /\ Runs(<< ParsedCommand(ARGV_ECHO_HI, Truncating(FILE_F), NoRedirection) >>)
          => fs'[FILE_F] = Some(<<"h", "i", "\n">>)
        /\ Runs(<< ParsedCommand(ARGV_ECHO_BYE, Appending(FILE_F), NoRedirection) >>)
          => fs'[FILE_F] = Some((IF fs[FILE_F].is_some THEN fs[FILE_F].value ELSE <<>>)
                                \o <<"b", "y", "e", "\n">>)
      ]_vars

\* C10: when the stdout target of a stage cannot be opened (in a pipeline
\* whose stages all have arguments), the failure is on the shell's stderr and
\* what the stage's program writes to stdout is dropped: it is not on the
\* terminal and in no file.
C10_UnopenableTargetDiscards ==
    \A k \in 1..Len(pipeline) :
        (EveryStageHasTokens /\ Dispatched(k) /\ IsExternalStage(k)
           /\ pipeline[k].stdout.file_name = Some(FILE_UNOPENABLE))
            => /\ Contains(term_err, <<"E", "r", "r", "o", "r", ":", " ">> \o ENOENT_DISPLAY \o <<CHAR_NEWLINE>>)
               /\ ~Contains(term_out, ChildOut(k))
               /\ \A p \in Files : fs[p].is_some => ~Contains(fs[p].value, ChildOut(k))

\* the one stage parse_input returned, when it returned exactly one
Returned(stage) == ppc = "returned" /\ result = Some(<<stage>>)

\* C11: for every non-empty s without a single quote, cmd 's' parses to one
\* stage with the arguments cmd and s and no redirection.
C11_SingleQuoteRoundTrip ==
    \A s \in Strings(QuotedAlphabet, MaxQuotedLen) :
        (ppc = "returned" /\ input = SingleQuoted(s))
            => Returned(ParsedCommand(<<WORD_CMD, s>>, NoRedirection, NoRedirection))

\* the tokens of a line of JoinAlphabet when a quote only switches the quoted
\* mode on or off and a token ends only at a blank outside quotes
RECURSIVE JoinedTokens(_, _, _, _)
JoinedTokens(s, quoted, token, tokens) ==
    IF s = <<>> THEN (IF token = <<>> THEN tokens ELSE Append(tokens, token))
    ELSE IF Head(s) = CHAR_SINGLE_QUOTE
         THEN JoinedTokens(Tail(s), ~quoted, token, tokens)
         ELSE IF IsWhitespace(Head(s)) /\ ~quoted
              THEN JoinedTokens(Tail(s), quoted, <<>>,
                                IF token = <<>> THEN tokens ELSE Append(tokens, token))
              ELSE JoinedTokens(Tail(s), quoted, Append(token, Head(s)), tokens)

\* C12: a quote next to other text joins the same token, a closing quote ends
\* the quoted mode whatever follows it, and a token ends only at a blank
\* outside quotes: 'a'a a gives aa and a, a'a a' gives the one token aa a,
\* '' a gives a.
C12_AdjacentQuotesJoin ==
    (ppc = "returned" /\ input \in JoinLines /\ JoinedTokens(input, FALSE, <<>>, <<>>) # <<>>)
        => Returned(ParsedCommand(JoinedTokens(input, FALSE, <<>>, <<>>),
                                  NoRedirection, NoRedirection))

\* C13: outside quotes a backslash makes the one character after it a literal
\* part of the token in hand, whatever the character: the backslash is not
\* kept, the character starts no redirection, pipe, quote or token break, and
\* the character after it is read as usual.
C13_BackslashEscapesOneCharacter ==
    \A x \in EscapeCases :
        (ppc = "returned" /\ input = Escaped(x[1], x[2], x[3]))
            => Returned(ParsedCommand(
                   IF x[3] = <<" ", "a">>
                   THEN << x[1] \o <<x[2]>>, <<"a">> >>
                   ELSE << x[1] \o <<x[2]>> \o x[3] >>,
                   NoRedirection, NoRedirection))

\* what a row of units stands for: a backslash before one of the five
\* escaping characters is removed, before any other character it is kept
RECURSIVE UnitsMeaning(_)
UnitsMeaning(row) ==
    IF row = <<>> THEN <<>>
    ELSE (IF Len(Head(row)) = 2 /\ Head(row)[2] \in EscapingCharacters
          THEN <<Head(row)[2]>>
          ELSE Head(row))
         \o UnitsMeaning(Tail(row))

\* C14: inside double quotes a backslash before a backtick, backslash, dollar
\* sign, double quote or exclamation mark is removed and the character kept;
\* before any other character both are kept; a blank inside the quotes does
\* not split the token; and echo 'a b'  "c\"d" has the arguments echo, a b
\* and c"d.
C14_BackslashInDoubleQuotes ==
    /\ \A row \in UnitRows :
          (ppc = "returned" /\ input = DoubleQuoted(Flatten(row)))
              => Returned(ParsedCommand(<<WORD_CMD, UnitsMeaning(row)>>,
                                        NoRedirection, NoRedirection))
    /\ (ppc = "returned" /\ input = LINE_ECHO_QUOTED)
          => Returned(ParsedCommand(<<COMMAND_ECHO, <<"a", " ", "b">>,
                                      <<"c", CHAR_DOUBLE_QUOTE, "d">>>>,
                                    NoRedirection, NoRedirection))

\* C15: cmd &> f (or &>> f) makes f the target of stdout and of stderr, both
\* with the append flag of the operator, and a word after the path is an
\* argument.
C15_BothStreamsOperator ==
    \A op \in BothOperators, gap \in Gaps, tail \in Tails :
        (ppc = "returned" /\ input = BothLine(op, gap, tail))
            => Returned(ParsedCommand(
                   IF tail = <<>> THEN <<WORD_CMD>> ELSE <<WORD_CMD, WORD_X>>,
                   OutputRedirection(Some(FILE_F), op.append),
                   OutputRedirection(Some(FILE_F), op.append)))

\* C16: the append flag of a stream is set by that stream's own operator and
\* by nothing else: stdout.append_to is TRUE iff the stage has >>, 1>> or &>>,
\* stderr.append_to is TRUE iff it has 2>> or &>>, whatever redirection of the
\* other stream or quoted > comes later (cmd >> f 2>> g has both flags TRUE).
C16_AppendFlagPerStream ==
    \A x \in AppendCases :
        (ppc = "returned" /\ input = AppendLine(x[1], x[2]))
            => /\ result.is_some /\ Len(result.value) = 1
               /\ result.value[1].stdout.append_to
                    = (\E k \in 1..Len(x[1]) : x[1][k].out /\ x[1][k].append)
               /\ result.value[1].stderr.append_to
                    = (\E k \in 1..Len(x[1]) : x[1][k].err /\ x[1][k].append)

\* C17: an unquoted | ends the stage in hand with all that was read for it,
\* a token or target right before the | included (echo a|cat is the stages
\* echo a and cat), and a line has one stage more than it has unquoted |.
C17_PipeFlushesTheStage ==
    \A row \in StageRows, separator \in Separators :
        (ppc = "returned" /\ input = Joined(row, separator))
            => result = Some([k \in 1..Len(row) |-> row[k].stage])

\* C18: the token after a redirection operator is the target of the stream
\* and no argument, quoted or not: cmd > 'm f' x has the stdout target m f
\* and the arguments cmd and x.
C18_TargetIsNeverAnArgument ==
    \A op \in StdoutOperators \cup StderrOperators, target \in Targets :
        (ppc = "returned" /\ input = TargetLine(op, target))
            => Returned(ParsedCommand(
                   <<WORD_CMD, WORD_X>>,
                   IF op.out THEN OutputRedirection(Some(target.path), op.append)
                   ELSE NoRedirection,
                   IF op.err THEN OutputRedirection(Some(target.path), op.append)
                   ELSE NoRedirection))

\* the code exit is to end the process with: its first argument when that is
\* a number, 0 when there is none or it is no number
ExitCodeOf(arguments) ==
    CASE arguments = <<>> -> 0
      [] Head(arguments) = <<"3">> -> 3
      [] Head(arguments) = <<"0">> -> 0
      [] Head(arguments) = <<"1", "7">> -> 17
      [] OTHER -> 0

\* C19: a line that is exit with arguments ends the shell process, which
\* never comes back to the prompt, with its first argument as the status when
\* that is a number and with 0 when there is no argument or it is no number.
C19_ExitStatusOfExit ==
    \A arguments \in ExitArguments :
        (pipeline = << ParsedCommand(<<COMMAND_EXIT>> \o arguments, NoRedirection, NoRedirection) >>
           /\ pc # "loop")
            => (pc = "exited" /\ exit_status = ExitCodeOf(arguments))

\* the directory cd is asked for: its first argument, HOME when there is none
\* or it is ~
DirectoryAsked(arguments) ==
    IF arguments = <<>> \/ Head(arguments) = HOME_DIRECTORY
    THEN ENVIRONMENT_VARIABLE_HOME
    ELSE Head(arguments)

NoSuchDirectory(directory) ==
    <<"c", "d", ":", " ">> \o directory
    \o <<":", " ", "N", "o", " ", "s", "u", "c", "h", " ", "f", "i", "l", "e", " ", "o", "r", " ",
         "d", "i", "r", "e", "c", "t", "o", "r", "y", CHAR_NEWLINE>>

\* the step in which the shell runs the line cd arguments, its stderr
\* redirected as `stderr` says
RunsCd(arguments, stderr) ==
    Runs(<< ParsedCommand(<<COMMAND_CD>> \o arguments, NoRedirection, stderr) >>)

\* C20: cd looks at its first argument only, HOME standing for no argument
\* and for ~.  When that directory cannot be entered the working directory
\* stays what it was and cd: <dir>: No such file or directory is written to
\* the stage's stderr sink (the terminal, or the file of 2>); when it can, it
\* becomes the working directory and nothing is written.
C20_CdKeepsDirectoryOnFailure ==
    [][ \A arguments \in CdArguments, stderr \in {NoRedirection, Truncating(FILE_G)} :
          RunsCd(arguments, stderr)
            => LET directory == DirectoryAsked(arguments)
                   message == NoSuchDirectory(directory)
               IN  IF ResolveDir(cwd, directory) \in Directories
                   THEN /\ cwd' = ResolveDir(cwd, directory)
                        /\ term_err' = <<>>
                        /\ stderr = NoRedirection => fs' = fs
                   ELSE /\ cwd' = cwd
                        /\ IF stderr = NoRedirection
                           THEN term_err' = message /\ fs' = fs
                           ELSE /\ term_err' = <<>>
                                /\ fs'[FILE_G].is_some
                                /\ SubSeq(fs'[FILE_G].value, 1, Len(message)) = message
      ]_vars

\* cd /n /home has run in /bin: the first argument does not exist, the second
\* does; the shell is still in /bin and the message names /n
C20_CdFailedInAnotherDirectory ==
    /\ pc = "prompt"
    /\ lines = 2
    /\ pipeline = << ParsedCommand(<<COMMAND_CD, DIRECTORY_MISSING, ENVIRONMENT_VARIABLE_HOME>>,
                                   NoRedirection, NoRedirection) >>
    /\ cwd = <<"/", "b", "i", "n">>
    /\ term_err = NoSuchDirectory(DIRECTORY_MISSING)

\* the line of one type that has run, and the name it asked about
TypeRan ==
    /\ pc = "prompt" /\ lines > 0 /\ Len(pipeline) = 1
    /\ HasTokens(1) /\ CommandOf(1) = COMMAND_TYPE /\ Len(pipeline[1].tokens.value) = 2
TypeName == pipeline[1].tokens.value[2]

IS_A_SHELL_BUILTIN == <<" ", "i", "s", " ", "a", " ", "s", "h", "e", "l", "l", " ", "b", "u", "i", "l", "t", "i", "n", "\n">>

\* the builtin set: cd, echo, exit, history, pwd, type
BuiltinSet == {COMMAND_CD, COMMAND_ECHO, COMMAND_EXIT, COMMAND_HISTORY, COMMAND_PWD, COMMAND_TYPE}

\* C21: type of a name of the builtin set writes "<name> is a shell builtin"
\* to stdout whatever PATH holds, so two runs that differ only in PATH write
\* the same line
C21_TypeOfBuiltinIgnoresPath ==
    (TypeRan /\ TypeName \in BuiltinSet)
        => (term_out = TypeName \o IS_A_SHELL_BUILTIN /\ term_err = <<>>)

\* a regular file of that name with an execute bit is in the directory
HoldsExecutable(directory, name) ==
    \E f \in RegularFiles :
        /\ f.path = directory \o (IF directory = <<"/">> THEN <<>> ELSE <<"/">>) \o name
        /\ f.mode % 2 = 1 \/ (f.mode \div 8) % 2 = 1 \/ (f.mode \div 64) % 2 = 1

\* the positions of PATH whose directory holds such a file
Holders(name) == { k \in 1..Len(env_path) : HoldsExecutable(env_path[k], name) }

\* the smallest member of a non-empty set of positions
Earliest(S) == CHOOSE k \in S : \A j \in S : k <= j

FoundIn(directory, name) ==
    Some(directory \o (IF directory = <<"/">> THEN <<>> ELSE <<"/">>) \o name)

\* C22: the search returns the path under the earliest directory of PATH that
\* holds a regular file of that name with an execute bit, entries without the
\* bit and entries that are no regular files being passed over also when a
\* later directory holds such a file, and returns nothing when no directory
\* does; type writes what the search returned.
C22_SearchReturnsEarliestExecutable ==
    /\ \A name \in SearchNames :
         search_executable(name) =
            IF Holders(name) = {} THEN None
            ELSE FoundIn(env_path[Earliest(Holders(name))], name)
    /\ (TypeRan /\ ~IsBuiltin(TypeName)) =>
         IF Holders(TypeName) = {}
         THEN term_out = <<>> /\ term_err = TypeName \o <<":", " ", "n", "o", "t", " ", "f", "o", "u", "n", "d", "\n">>
         ELSE /\ term_out = TypeName \o <<" ", "i", "s", " ">>
                               \o FoundIn(env_path[Earliest(Holders(TypeName))], TypeName).value
                               \o <<"\n">>
              /\ term_err = <<>>

\* type bin has run with / ahead of /home in PATH: /bin is a directory, the
\* regular file /home/bin is what was found
C22_DirectoryPassedOver ==
    /\ TypeRan /\ TypeName = <<"b", "i", "n">>
    /\ Len(env_path) >= 2 /\ env_path[1] = <<"/">> /\ env_path[2] = <<"/", "h", "o", "m", "e">>
    /\ term_out = <<"b", "i", "n", " ", "i", "s", " ", "/", "h", "o", "m", "e", "/", "b", "i", "n", "\n">>

\* the words joined with single blanks, each as typed or as -e expands it
RECURSIVE EchoJoined(_, _)
EchoJoined(row, expand) ==
    IF row = <<>> THEN <<>>
    ELSE (IF expand THEN Head(row).expanded ELSE Head(row).argument)
         \o (IF Len(row) > 1 THEN <<" ">> ELSE <<>>)
         \o EchoJoined(Tail(row), expand)

\* what echo is to write for the words after its name
EchoWritten(row) ==
    (IF row # <<>> /\ Head(row) = WORD_FLAG
     THEN EchoJoined(Tail(row), TRUE)
     ELSE EchoJoined(row, FALSE)) \o <<CHAR_NEWLINE>>

\* every line of the family with what echo is to write for it
EchoTable == { [line |-> EchoLine(row), written |-> EchoWritten(row)] : row \in EchoWordRows }

\* C23: echo writes its arguments joined by single blanks and a newline;
\* -e is a flag as the first argument only and is not written; with -e the
\* escapes n, t, r, backslash, 0 and the two quotes are expanded inside the
\* arguments the parser delivered and any other escape is written as it is,
\* backslash included; without -e nothing is expanded.
C23_EchoExpandsEscapesEndToEnd ==
    (pc = "prompt" /\ lines > 0) =>
        \A e \in EchoTable : input = e.line => (term_out = e.written /\ term_err = <<>>)

\* echo -e "a\t" -e has run: a, a tab, a blank and -e are on the terminal
C23_EscapeExpandedFlagWritten ==
    /\ pc = "prompt" /\ lines > 0
    /\ input = COMMAND_ECHO \o <<" ", "-", "e", " ", CHAR_DOUBLE_QUOTE, "a", CHAR_BACKSLASH, "t",
                                 CHAR_DOUBLE_QUOTE, " ", "-", "e">>
    /\ term_out = <<"a", CHAR_TAB, " ", "-", "e", CHAR_NEWLINE>>

\* C24: a stage whose name is cd, echo, exit, history, pwd or type runs inside
\* the shell: no process is spawned for it and nothing is looked up for it,
\* also when PATH holds an executable of that name.
C24_BuiltinNamesAreNeverSpawned ==
    \A k \in 1..Len(pipeline) :
        (HasTokens(k) /\ CommandOf(k) \in BuiltinSet) =>
            /\ proc[k] = "none"
            /\ ~Contains(term_err, CommandOf(k) \o <<":", " ", "c", "o", "m", "m", "a", "n", "d", " ", "n", "o", "t", " ", "f", "o", "u", "n", "d">>)

\* C25: a line with a stage without arguments is discarded as a whole,
\* wherever that stage sits: none of its stages runs (nothing is written,
\* the working directory stays, the shell does not exit), no process is
\* spawned and no redirection target is opened.
C25_EmptyStageDiscardsTheLine ==
    (\E k \in 1..Len(pipeline) : ~HasTokens(k)) =>
        /\ \A k \in StageIds : proc[k] = "none"
        /\ opens = <<>>
        /\ term_out = <<>> /\ term_err = <<>>
        /\ cwd = <<"/">>
        /\ pc \notin {"exited", "panicked"}

\* the bytes are where the redirection of a stream leads: in the file when
\* one is named and can be opened, else on the shell's own stream
Delivered(redirection, terminal, bytes) ==
    IF redirection.file_name.is_some /\ redirection.file_name.value \in Files
    THEN fs[redirection.file_name.value].is_some
         /\ Contains(fs[redirection.file_name.value].value, bytes)
    ELSE Contains(terminal, bytes)

\* the line of one external program whose child was spawned
SingleExternalSpawned ==
    /\ lines > 0 /\ Len(pipeline) = 1
    /\ IsExternalStage(1)
    /\ proc[1] # "none"

\* C26: when the executor is back at the prompt after a line of one external
\* program, the child has exited and has been waited on, and everything it
\* wrote on its stdout and its stderr is where the stage's redirections lead.
C26_SingleExternalIsWaitedAndWritten ==
    (pc = "prompt" /\ SingleExternalSpawned) =>
        /\ proc[1] = "waited"
        /\ Delivered(pipeline[1].stdout, term_out, ChildOut(1))
        /\ Delivered(pipeline[1].stderr, term_err, ChildErr(1))

\* cat > f has run: the child is waited on, f holds what it wrote on stdout
C26_CapturedOutputInFile ==
    /\ pc = "prompt" /\ SingleExternalSpawned
    /\ pipeline[1].stdout = Truncating(FILE_F)
    /\ proc[1] = "waited"
    /\ Contains(fs[FILE_F].value, ChildOut(1))
    /\ term_err = ChildErr(1)

\* the number an argument list of history stands for: 0 without an
\* argument, with 0 and with a first argument that is no number
HistoryCountOf(arguments) ==
    CASE arguments = <<>> -> 0
      [] Head(arguments) = <<"1">> -> 1
      [] Head(arguments) \in { <<"2">>, <<"0", "2">>, <<"+", "2">> } -> 2
      [] Head(arguments) = <<"3">> -> 3
      [] Head(arguments) = <<"4">> -> 4
      [] Head(arguments) = <<"9">> -> 9
      [] Head(arguments) = HUGE_COUNT -> 999999999
      [] OTHER -> 0

\* the lines history is to write for the log and the number: the last n
\* entries, or all of them, each with its position in the whole log
HistoryListing(log, n) ==
    LET len == Len(log)
        shown == IF n > 0 /\ n < len THEN n ELSE len
    IN  Flatten([k \in 1..shown |->
                    <<" ", " ", " ", " ", DigitChar(len - shown + k), " ", " ">>
                    \o log[len - shown + k] \o <<CHAR_NEWLINE>>])

\* C27: history n with a number n > 0 writes the last min(n, len) entries of
\* the log in order, each labelled with its 1-based position in the whole
\* log, also when n exceeds len; with no argument, with 0 and with an
\* argument that is no number it writes all len entries.
C27_HistoryWritesTheLastEntries ==
    [][ \A arguments \in HistoryArguments :
          (/\ lines' = lines + 1
           /\ pipeline' = << ParsedCommand(<<COMMAND_HISTORY>> \o arguments,
                                           NoRedirection, NoRedirection) >>)
            => /\ term_out' = HistoryListing(history, HistoryCountOf(arguments))
               /\ term_err' = <<>> ]_vars

\* history 2 has run on a log of three entries: the second and the third
\* are written, numbered 2 and 3
C27_LastTwoOfThree ==
    /\ lines > 0 /\ Len(pipeline) = 1
    /\ pipeline[1].tokens = Some(<<COMMAND_HISTORY, <<"2">> >>)
    /\ Len(history) = 3
    /\ term_out = <<" ", " ", " ", " ", "2", " ", " ">> \o history[2] \o <<CHAR_NEWLINE>>
                  \o <<" ", " ", " ", " ", "3", " ", " ">> \o history[3] \o <<CHAR_NEWLINE>>

\* C30: in every pipeline parse_input returns, an argument list that is
\* present has at least one entry and no empty entry, and a redirection
\* target that is present is not the empty string; blanks in a row make no
\* empty token.
C30_NoEmptyTokenIsReturned ==
    (ppc = "returned" /\ result.is_some) =>
        \A k \in 1..Len(result.value) :
            LET stage == result.value[k]
            IN  /\ stage.tokens.is_some =>
                    /\ Len(stage.tokens.value) >= 1
                    /\ \A j \in 1..Len(stage.tokens.value) : stage.tokens.value[j] # <<>>
                /\ stage.stdout.file_name.is_some => stage.stdout.file_name.value # <<>>
                /\ stage.stderr.file_name.is_some => stage.stderr.file_name.value # <<>>

\* a, two blanks, a has been parsed to the two arguments a and a
C30_TwoBlanksOneBoundary ==
    /\ ppc = "returned"
    /\ input = <<"a", " ", " ", "a">>
    /\ result = Some(<< ParsedCommand(<< <<"a">>, <<"a">> >>, NoRedirection, NoRedirection) >>)

\* C28: with pipes that hold a bounded number of bytes, a pipeline of three
\* or more external programs is never stuck: while the line is not done,
\* the executor or one of the programs can take a step, whatever the number
\* of bytes that flow.
C28_PipelineIsNeverStuck ==
    (lines > 0 /\ Len(pipeline) >= 3 /\ pc # "prompt") => ENABLED NextStreams

InCaptured == pc \in {"captured_wait_previous", "captured_copy_stdout", "captured_copy_stderr"}

\* C29: run_executable of commands.rs with stdout or stderr captured is
\* never stuck: until it returns, the shell, the child or the previous
\* child can take a step, whatever the numbers of bytes written to the
\* streams.
C29_CapturedRunIsNeverStuck ==
    InCaptured => ENABLED NextCaptured

\* parse_input run to its end from a state of the parser
RECURSIVE RunParser(_)
RunParser(st) ==
    IF st.characters = <<>> THEN ParseEnd(st).pipeline ELSE RunParser(ParseChar(st, TRUE))

\* the last n stages of a pipeline
LastStages(stages, n) == SubSeq(stages, Len(stages) - n + 1, Len(stages))

\* no quote and no backslash is in the line: every pipe in it is unquoted
NothingQuoted(line) ==
    \A k \in 1..Len(line) :
        line[k] \notin {CHAR_SINGLE_QUOTE, CHAR_DOUBLE_QUOTE, CHAR_BACKSLASH}

\* C31: the state of the parser is per stage.  The step that takes an
\* unquoted pipe leaves no pending token, no quote, escape or redirection
\* mode and absent, non-appending redirections; no step changes a stage
\* that was pushed before; and what follows a pipe is parsed to the stages
\* it is parsed to when typed alone, whatever the stage before it held.
C31_StageStateIsFresh ==
    [][ /\ \A k \in 1..Len(parser.pipeline) :
              k <= Len(parser'.pipeline) /\ parser'.pipeline[k] = parser.pipeline[k]
        /\ (ppc' = "scan" /\ Len(parser'.pipeline) = Len(parser.pipeline) + 1) =>
              /\ parser'.tokens = <<>>
              /\ parser'.current_token = <<>>
              /\ ~parser'.in_single_quotes /\ ~parser'.in_double_quotes
              /\ ~parser'.escape_next_char
              /\ ~parser'.in_stdout_redirection /\ ~parser'.in_stderr_redirection
              /\ parser'.stdout = [file_name |-> None, append_to |-> FALSE]
              /\ parser'.stderr = [file_name |-> None, append_to |-> FALSE]
        /\ (ppc' = "returned" /\ NothingQuoted(input)) =>
              \A k \in 1..Len(input) :
                  input[k] = CHAR_PIPE =>
                      LET alone == RunParser(ParserStart(SubSeq(input, k + 1, Len(input))))
                      IN  /\ Len(parser'.pipeline) > Len(alone)
                          /\ LastStages(parser'.pipeline, Len(alone)) = alone ]_vars

\* >>|a has been parsed: the first stage has no arguments and an appending
\* stdout without a target, the second is a alone
C31_ModeEndsAtThePipe ==
    /\ ppc = "returned"
    /\ input = <<CHAR_GREATER_THAN, CHAR_GREATER_THAN, CHAR_PIPE, "a">>
    /\ result = Some(<< ParsedCommand(<<>>, OutputRedirection(None, TRUE), NoRedirection),
                        ParsedCommand(<< <<"a">> >>, NoRedirection, NoRedirection) >>)

\* the directory the first argument of a cd names when typed in directory
\* cwd_now: HOME for no argument and for ~, the argument itself when it is
\* absolute, the argument under cwd_now when it is relative
NamedDirectory(cwd_now, tokens) ==
    LET typed == IF Len(tokens) < 2 \/ tokens[2] = <<"~">>
                 THEN <<"/", "h", "o", "m", "e">>
                 ELSE tokens[2]
    IN  IF typed[1] = "/" THEN typed
        ELSE IF cwd_now = <<"/">> THEN <<"/">> \o typed
        ELSE cwd_now \o <<"/">> \o typed

\* C32: across the lines the working directory changes only in the step
\* that runs a cd stage naming a directory that exists, and then to that
\* directory; every other step (an echo, pwd, type, history, an external
\* program, a name not found, a cd that fails, with or without redirections,
\* and every step of a child or of a wait) leaves it what it was.
C32_OnlySuccessfulCdChangesDirectory ==
    [][ cwd' # cwd =>
          /\ pc = "loop"
          /\ HasTokens(index)
          /\ CommandOf(index) = <<"c", "d">>
          /\ NamedDirectory(cwd, pipeline[index].tokens.value) \in Directories
          /\ cwd' = NamedDirectory(cwd, pipeline[index].tokens.value) ]_vars

\* a first line has changed the directory to /bin and a second line, a cat
\* before a cd to a path that does not exist with 2> g, has run to its end
\* in that directory
C32_DirectoryKeptByLaterLine ==
    /\ lines = 2
    /\ pc = "prompt"
    /\ pipeline = << ParsedCommand(ARGV_CAT, NoRedirection, NoRedirection),
                     ParsedCommand(<<COMMAND_CD, DIRECTORY_MISSING>>, NoRedirection,
                                   Truncating(FILE_G)) >>
    /\ cwd = <<"/", "b", "i", "n">>

\* parse_input of main.rs run to its end from a state of the parser
RECURSIVE RunParserOfMain(_)
RunParserOfMain(st) ==
    IF st.characters = <<>> THEN ParseReturn(ParseEnd(st))
    ELSE RunParserOfMain(ParseChar(st, FALSE))

\* C33: the two copies of the tokenizer return the same pipeline for every
\* input: what parse_input of parser.rs has returned for a line (the stages,
\* their argv, redirection targets and append flags) is what parse_input of
\* main.rs returns for it, also when the line ends in an unquoted 1, 2 or &
\* that starts a token.
C33_BothTokenizersReturnTheSame ==
    ppc = "returned" => result = RunParserOfMain(ParserStart(input))

\* the words typed before and after the operator
RedirectedWords == { <<"a">>, <<"a", "a">> }

\* C34: a redirection target is made of the characters after the operator
\* only.  A word typed right before an unquoted > is closed as an argv entry
\* of its own and the word after the >, with or without a blank between, is
\* the stdout target: w>v and w> v are parsed to argv [w] with target v.
C34_TargetIsWhatFollowsTheOperator ==
    \A w \in RedirectedWords, v \in RedirectedWords, gap \in { <<>>, <<" ">> } :
        (ppc = "returned" /\ input = w \o <<CHAR_GREATER_THAN>> \o gap \o v)
            => result = Some(<< ParsedCommand(<<w>>, Truncating(v), NoRedirection) >>)

====
